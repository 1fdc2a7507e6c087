--------------------------- MODULE NetworkServices ---------------------------
(***************************************************************************)
(* Services: what a wallet asks the network, several services for each     *)
(* kind of question, and how a call goes on when one fails: to the next    *)
(* service, once more after a connection was reset, or with the exchange   *)
(* rates it knew.  The index of the service to ask is shared by all calls  *)
(* of a kind, and so are the rates.                                        *)
(***************************************************************************)
EXTENDS Naturals

CONSTANTS
    Callers,        \* the wallet's calls, the tasks of a Monitor
    ServiceCount,   \* services in each collection
    Resends,        \* bound: how often a request that was reset is sent again: 3, or 2
    Invocations,    \* of invokeChaintracksWithRetry: 3
    MaxRetries      \* of ChaintracksChainTracker: 3

ASSUME ServicesAssumption ==
    /\ {ServiceCount, Invocations, MaxRetries} \subseteq Nat \ {0}
    /\ Resends \in Nat

ServiceIds == 0 .. ServiceCount - 1

\* The collections that are asked one service after the other, by an index all calls share.
InTurn == {"merklePath", "rawTx", "utxoStatus"}
Ops == InTurn \cup {"fiat", "header", "verify", "postBeef"}

VARIABLES
    index,      \* _index of each collection
    rates,      \* options.fiatExchangeRates: "none", "fresh" or "stale"
    call        \* each caller's call: op; the services that are asked; whether one of them,
                \* or the call itself, asks chaintracks; tries, retry, invocations and resets;
                \* the rates it began with; the services that failed; whether another call
                \* moved the index; answer

vars == <<index, rates, call>>

NoCall == [op |-> "none", asked |-> {}, chaintracks |-> FALSE, tries |-> 0, retry |-> 0,
           invocations |-> 0, resets |-> 0, known |-> "none", failed |-> {}, moved |-> FALSE,
           answer |-> "none"]

Init ==
    /\ index = [c \in InTurn |-> 0]
    /\ rates = "none"
    /\ call = [k \in Callers |-> NoCall]
-----------------------------------------------------------------------------
Waiting(k) == call[k].asked # {}

\* Mutant: the last service of a collection is never reached.
AfterShort(i) == IF i + 1 < ServiceCount - 1 THEN i + 1 ELSE 0

\* ServiceCollection.next.
After(i) == (i + 1) % ServiceCount

\* The other calls of the kind do not know that the index moves.
Moved(calls, k, op) ==
    [j \in Callers |-> IF j # k /\ calls[j].op = op /\ calls[j].asked # {}
                       THEN [calls[j] EXCEPT !.moved = TRUE] ELSE calls[j]]

Begin(k, c) == call' = [call EXCEPT ![k] = c]

\* The call returns; of one that fails it is kept what failed it.
Return(k) == call' = [call EXCEPT ![k] = NoCall]

Failed(c) == [NoCall EXCEPT !.op = c.op, !.failed = c.failed, !.moved = c.moved,
                            !.known = c.known, !.answer = "bad"]

\* A call asks the service at the index, or with useNext the next one.
StartInTurn(k, op, useNext) ==
    LET i == IF useNext THEN After(index[op]) ELSE index[op]
        calls == [call EXCEPT ![k] = [NoCall EXCEPT !.op = op, !.asked = {i},
                                                    !.tries = ServiceCount]]
    IN  /\ index' = [index EXCEPT ![op] = i]
        /\ call' = IF useNext THEN Moved(calls, k, op) ELSE calls
        /\ UNCHANGED rates

\* hashToHeader, getHeight, getHeaderForHeight.
StartHeader(k) ==
    /\ Begin(k, [NoCall EXCEPT !.op = "header", !.asked = {0}, !.chaintracks = TRUE,
                               !.invocations = Invocations])
    /\ UNCHANGED <<index, rates>>

\* isValidRootForHeight, of a tracker that is made for the beef that is verified.
StartVerify(k) ==
    /\ Begin(k, [NoCall EXCEPT !.op = "verify", !.asked = {0}, !.chaintracks = TRUE,
                               !.tries = MaxRetries])
    /\ UNCHANGED <<index, rates>>

\* postBeef asks all services at once.
StartPostBeef(k) ==
    /\ Begin(k, [NoCall EXCEPT !.op = "postBeef", !.asked = ServiceIds])
    /\ UNCHANGED <<index, rates>>

\* Rates that are fresh are returned; else a clone of the collection is asked from its start.
StartFiat(k) ==
    /\ IF rates = "fresh" THEN Return(k)
       ELSE Begin(k, [NoCall EXCEPT !.op = "fiat", !.known = rates, !.tries = ServiceCount,
                                    !.asked = {0}])
    /\ UNCHANGED <<index, rates>>

Start(k, op) ==
    \/ op \in InTurn /\ \E useNext \in BOOLEAN : StartInTurn(k, op, useNext)
    \/ op = "header" /\ StartHeader(k)
    \/ op = "verify" /\ StartVerify(k)
    \/ op = "postBeef" /\ StartPostBeef(k)
    \/ op = "fiat" /\ StartFiat(k)
-----------------------------------------------------------------------------
(* The services that are asked in turn.                                    *)

AsksService(k) == Waiting(k) /\ ~call[k].chaintracks

\* The rawTx of the txid, the status of the output.
Succeed(k) ==
    /\ AsksService(k) /\ call[k].op \in {"rawTx", "utxoStatus"}
    /\ Return(k)
    /\ UNCHANGED <<index, rates>>

\* A proof names its block, whose header the service asks of chaintracks.
ProofFound(k) ==
    /\ AsksService(k) /\ call[k].op = "merklePath"
    /\ call' = [call EXCEPT ![k].chaintracks = TRUE, ![k].invocations = Invocations,
                            ![k].resets = 0]
    /\ UNCHANGED <<index, rates>>

\* Mutant: a failure does not count.
TriesLeftSame(c) == c.tries

TriesLeft(c) == c.tries - 1

\* The next service is asked, and for the status of an output all of them once more after
\* a while.
ServiceFails(k) ==
    LET c == call[k]
        i == After(index[c.op])
        again == c.op = "utxoStatus" /\ c.retry = 0
        now == [c EXCEPT !.failed = @ \cup c.asked, !.tries = TriesLeft(c), !.resets = 0,
                         !.chaintracks = FALSE]
    IN  /\ index' = [index EXCEPT ![c.op] = i]
        /\ call' = Moved([call EXCEPT ![k] =
                     IF c.tries > 1 THEN [now EXCEPT !.asked = {i}]
                     ELSE IF again
                     THEN [now EXCEPT !.asked = {i}, !.tries = ServiceCount, !.retry = 1]
                     ELSE Failed(now)], k, c.op)
        /\ UNCHANGED rates

\* A service throws, has nothing, or returns a rawTx of another txid.
FailInTurn(k) == AsksService(k) /\ call[k].op \in InTurn /\ ServiceFails(k)

\* The status of an output, and what is asked of chaintracks, is asked again when the
\* connection was reset.
Reset(k) ==
    /\ Waiting(k) /\ (call[k].op = "utxoStatus" \/ call[k].chaintracks)
    /\ call[k].resets < Resends
    /\ call' = [call EXCEPT ![k].resets = @ + 1]
    /\ UNCHANGED <<index, rates>>
-----------------------------------------------------------------------------
(* chaintracks.                                                            *)

\* The header; or whether the root is that of the height, if there is such a height.
ChaintracksAnswers(k) ==
    /\ Waiting(k) /\ call[k].chaintracks
    /\ Return(k)
    /\ UNCHANGED <<index, rates>>

Fails(k) == call' = [call EXCEPT ![k] = [Failed(@) EXCEPT !.failed = {0}]]

\* The tracker tries again whatever the error.
TrackerFails(k) ==
    /\ Waiting(k) /\ call[k].op = "verify"
    /\ IF call[k].tries > 1
       THEN call' = [call EXCEPT ![k].tries = TriesLeft(call[k]), ![k].resets = 0]
       ELSE Fails(k)
    /\ UNCHANGED <<index, rates>>

\* invokeChaintracksWithRetry, only if the connection was reset; a service that asked has
\* failed then.
ChaintracksFails(k) ==
    /\ Waiting(k) /\ call[k].chaintracks /\ call[k].op \in {"header", "merklePath"}
    /\ \/ /\ call[k].invocations > 1
          /\ call' = [call EXCEPT ![k].invocations = @ - 1, ![k].resets = 0]
          /\ UNCHANGED <<index, rates>>
       \/ call[k].op = "header" /\ Fails(k) /\ UNCHANGED <<index, rates>>
       \/ call[k].op = "merklePath" /\ ServiceFails(k)
-----------------------------------------------------------------------------
(* Posting.                                                                *)

\* One status for the beef: 200 is a success, and all else, a throw included, is not.
BeefResults == {"success", "error"}

\* All of the transactions, or one of them at least is not answered with 200.
TxsResults == {"success", "error"}

\* If none took the beef and all have answered, its transactions are posted: postTxs.
Answered(k, s, result) ==
    LET c == call[k]
        now == [c EXCEPT !.asked = @ \ {s},
                         !.failed = IF result = "success" THEN @ ELSE @ \cup {<<c.retry, s>>},
                         !.answer = IF result = "success" THEN "good" ELSE @]
    IN  [call EXCEPT ![k] =
           IF now.asked # {} THEN now
           ELSE IF now.answer = "good" THEN NoCall
           ELSE IF c.retry = 0
           THEN [now EXCEPT !.asked = ServiceIds, !.retry = 1, !.tries = ServiceCount]
           ELSE Failed(now)]

AnswerPostBeef(k, s) ==
    /\ call[k].op = "postBeef" /\ call[k].retry = 0 /\ s \in call[k].asked
    /\ \E result \in BeefResults : call' = Answered(k, s, result)
    /\ UNCHANGED <<index, rates>>

AnswerPostTxs(k, s) ==
    /\ call[k].op = "postBeef" /\ call[k].retry = 1 /\ s \in call[k].asked
    /\ \E result \in TxsResults : call' = Answered(k, s, result)
    /\ UNCHANGED <<index, rates>>

\* A source transaction that the beef lacks is asked for by getRawTx, whose index moves when
\* a service does not have it; as often as for one transaction of one service.
SourceFails(k) ==
    /\ call[k].op = "postBeef" /\ call[k].retry = 1 /\ Waiting(k)
    /\ call[k].tries > 0
    /\ index' = [index EXCEPT !["rawTx"] = After(@)]
    /\ call' = Moved([call EXCEPT ![k].tries = @ - 1], k, "rawTx")
    /\ UNCHANGED rates
-----------------------------------------------------------------------------
(* Exchange rates.                                                         *)

\* The service's rates have its own time.
SucceedFiat(k) ==
    /\ Waiting(k) /\ call[k].op = "fiat"
    /\ rates' \in {"fresh", "stale"}
    /\ Return(k)
    /\ UNCHANGED index

\* Mutant: nothing is returned, and kept.
RatesForgotten(c) == "none"

\* If no service answers, the rates the call began with are returned.
RatesWithout(c) == c.known

FailFiat(k) ==
    /\ Waiting(k) /\ call[k].op = "fiat"
    /\ LET c == call[k]
           now == [c EXCEPT !.failed = @ \cup c.asked, !.tries = TriesLeft(c)]
       IN  IF c.tries > 1
           THEN /\ Begin(k, [now EXCEPT !.asked = {After(i) : i \in @}])
                /\ UNCHANGED rates
           ELSE IF c.known = "none" THEN Begin(k, Failed(now)) /\ UNCHANGED rates
           ELSE Return(k) /\ rates' = RatesWithout(c)
    /\ UNCHANGED index

\* fiatUpdateMsecs pass.
Age ==
    /\ rates = "fresh"
    /\ rates' = "stale"
    /\ UNCHANGED <<index, call>>
-----------------------------------------------------------------------------
Answer(k) ==
    \/ Succeed(k) \/ ProofFound(k) \/ FailInTurn(k) \/ Reset(k)
    \/ ChaintracksAnswers(k) \/ TrackerFails(k) \/ ChaintracksFails(k)
    \/ SourceFails(k) \/ \E s \in ServiceIds : AnswerPostBeef(k, s) \/ AnswerPostTxs(k, s)
    \/ SucceedFiat(k) \/ FailFiat(k)

\* A caller asks again when it has its answer.
Next ==
    \/ \E k \in Callers :
         \/ ~Waiting(k) /\ \E op \in Ops : Start(k, op)
         \/ Answer(k)
    \/ Age

Spec == Init /\ [][Next]_vars

\* Every service answers or fails: a request has its own timeout.
FairSpec == Spec /\ \A k \in Callers : WF_vars(Answer(k))
-----------------------------------------------------------------------------
Rates == {"none", "fresh", "stale"}
CallType ==
    [op : Ops \cup {"none"}, asked : SUBSET ServiceIds, chaintracks : BOOLEAN, tries : Nat,
     retry : {0, 1}, invocations : Nat, resets : 0 .. Resends, known : Rates,
     failed : SUBSET (ServiceIds \cup ({0, 1} \X ServiceIds)), moved : BOOLEAN,
     answer : {"none", "good", "bad"}]

TypeOK ==
    /\ index \in [InTurn -> ServiceIds]
    /\ rates \in Rates
    /\ call \in [Callers -> CallType]

\* A call fails only when each of the services has failed it, the transactions of a beef
\* as well as the beef, unless another call has moved the index it goes by; exchange rates
\* fail only if there never were any, whoever else asks for them.
FailsIfAllFail ==
    \A k \in Callers :
      (call[k].answer = "bad" /\ ~call[k].moved) =>
        CASE call[k].op \in InTurn -> call[k].failed = ServiceIds
          [] call[k].op = "postBeef" -> call[k].failed = {0, 1} \X ServiceIds
          [] call[k].op = "fiat" -> call[k].failed = ServiceIds /\ call[k].known = "none"
          [] OTHER -> call[k].failed # {}

\* Exchange rates that were known once stay known, also when a call that found no service
\* ends after another one that did.
RatesStayKnown == [][rates # "none" => rates' # "none"]_rates

\* Every call has its answer in the end, however the calls of others move the index.
CallsEnd == \A k \in Callers : Waiting(k) ~> ~Waiting(k)
=============================================================================
