-------------------------- MODULE WsRegistryProofs --------------------------
(***************************************************************************)
(* Proofs about the session table, for any set of requests and any set of  *)
(* Shutdown calls.                                                         *)
(***************************************************************************)
EXTENDS WsRegistry, TLAPS

-----------------------------------------------------------------------------
\* The variables of the session table keep their types whatever register,
\* unregister and Shutdown do.
LEMMA TypeInit == RegInit => RegTypeOK
<1> SUFFICES ASSUME RegInit PROVE RegTypeOK
  OBVIOUS
<1>0. shuttingDown \in BOOLEAN
  BY DEF RegInit
<1>1. /\ nextSession \in Nat /\ doneCloses \in Nat
      /\ active \subseteq 1..nextSession
      /\ sid \in [Conns -> 0..nextSession]
  BY DEF RegInit
<1>2. /\ life \in [Conns -> {"new", "live", "refused", "gone"}]
      /\ spc \in [Callers -> {"idle", "cancelling", "nil", "err"}]
  BY DEF RegInit
<1>3. /\ cancelled \subseteq Conns /\ expired \subseteq Callers
      /\ cancels \in [Callers -> SUBSET Conns]
  BY DEF RegInit
<1> QED
  BY <1>0, <1>1, <1>2, <1>3 DEF RegTypeOK

LEMMA TypeStep == RegTypeOK /\ [RegNext]_regVars => RegTypeOK'
<1> SUFFICES ASSUME RegTypeOK, [RegNext]_regVars PROVE RegTypeOK'
  OBVIOUS
<1> USE DEF RegTypeOK, Cancel, CloseDoneIf
<1>1. ASSUME NEW c \in Conns, Register(c) PROVE RegTypeOK'
  BY <1>1 DEF Register, RegisterUnderKey, callerVars
<1>2. ASSUME NEW c \in Conns, Refuse(c) PROVE RegTypeOK'
  BY <1>2 DEF Refuse, tableVars, callerVars
<1>3. ASSUME NEW c \in Conns, CancelLive(c) PROVE RegTypeOK'
  BY <1>3 DEF CancelLive, tableVars, callerVars
<1>4. ASSUME NEW c \in Conns, Unregister(c) PROVE RegTypeOK'
  <2> USE <1>4 DEF Unregister, UnregisterClosingIf
  <2>1. doneCloses' \in Nat
    OBVIOUS
  <2>2. /\ active' \subseteq 1..nextSession'
        /\ life' \in [Conns -> {"new", "live", "refused", "gone"}]
        /\ cancelled' \subseteq Conns
    OBVIOUS
  <2> QED
    BY <2>1, <2>2 DEF callerVars
<1>5. ASSUME NEW k \in Callers, BeginShutdown(k) PROVE RegTypeOK'
  BY <1>5 DEF BeginShutdown, BeginShutdownCollecting, InTable
<1>6. ASSUME NEW k \in Callers, CallCancel(k) PROVE RegTypeOK'
  BY <1>6 DEF CallCancel, tableVars
<1>7. ASSUME NEW k \in Callers, ReturnDone(k) PROVE RegTypeOK'
  BY <1>7 DEF ReturnDone, tableVars
<1>8. ASSUME NEW k \in Callers, ReturnExpired(k) PROVE RegTypeOK'
  BY <1>8 DEF ReturnExpired, ReturnExpiredEarly, tableVars
<1>9. ASSUME NEW k \in Callers, Expire(k) PROVE RegTypeOK'
  BY <1>9 DEF Expire, tableVars
<1>10. CASE UNCHANGED regVars
  BY <1>10 DEF regVars, tableVars, callerVars
<1> QED
  BY <1>1, <1>2, <1>3, <1>4, <1>5, <1>6, <1>7, <1>8, <1>9, <1>10
     DEF RegNext, ShutdownStep

THEOREM TypeCorrect == RegSpec => []RegTypeOK
  BY TypeInit, TypeStep, PTL DEF RegSpec

-----------------------------------------------------------------------------
(* The inductive invariant, one lemma per action that can disturb it.      *)

\* Initially no key is issued, nobody is live and no call has begun.
LEMMA IndInit == RegInit => RegIndInv
<1> SUFFICES ASSUME RegInit PROVE RegIndInv
  OBVIOUS
<1>1. RegTypeOK
  BY TypeInit
<1>2. KeysIssued
  BY DEF RegInit, KeysIssued
<1>3. Live = {}
  BY DEF RegInit, Live
<1>4. TableMatchesLive
  BY <1>3 DEF RegInit, TableMatchesLive
<1>5. DoneClosedOnce /\ DoneMeansDrained /\ NoLostWakeup
  BY DEF RegInit, DoneClosedOnce, DoneMeansDrained, NoLostWakeup
<1>6. CallersCover
  BY DEF RegInit, CallersCover
<1> QED
  BY <1>1, <1>2, <1>4, <1>5, <1>6 DEF RegIndInv

\* The table is empty exactly when nobody is live.
LEMMA EmptyTable == TableMatchesLive => (active = {} <=> Live = {})
  BY DEF TableMatchesLive

\* register adds the request under a key nobody has.
LEMMA RegisterStep ==
  ASSUME RegIndInv, RegTypeOK', NEW c \in Conns, Register(c)
  PROVE  RegIndInv'
<1> USE DEF Register, RegisterUnderKey, callerVars
<1>1. /\ c \notin Live /\ Live' = Live \cup {c}
      /\ sid'[c] = nextSession + 1
      /\ \A d \in Conns : d # c => sid'[d] = sid[d]
      /\ \A d \in Conns : sid[d] \in 0..nextSession
      /\ nextSession \in Nat
  BY DEF RegIndInv, RegTypeOK, Live
<1>2. KeysIssued'
  <2>1. ASSUME NEW d \in Conns
        PROVE (sid'[d] = 0) <=> (life'[d] \in {"new", "refused"})
    <3>1. CASE d = c
      BY <3>1, <1>1 DEF RegIndInv, RegTypeOK
    <3>2. CASE d # c
      BY <3>2, <1>1 DEF RegIndInv, RegTypeOK, KeysIssued
    <3> QED BY <3>1, <3>2
  <2> QED BY <2>1 DEF KeysIssued
<1>3. active' = {sid'[d] : d \in Live'}
  <2>1. {sid'[d] : d \in Live} = {sid[d] : d \in Live}
    BY <1>1 DEF Live
  <2>2. {sid'[d] : d \in Live'} = {sid'[d] : d \in Live} \cup {sid'[c]}
    BY <1>1
  <2> QED BY <1>1, <2>1, <2>2 DEF RegIndInv, TableMatchesLive
<1>4. \A d, e \in Conns : sid'[d] = sid'[e] /\ sid'[d] # 0 => d = e
  <2> SUFFICES ASSUME NEW d \in Conns, NEW e \in Conns,
                      sid'[d] = sid'[e], sid'[d] # 0
               PROVE d = e
    OBVIOUS
  <2>1. CASE d = c \/ e = c
    BY <2>1, <1>1
  <2>2. CASE d # c /\ e # c
    BY <2>2, <1>1 DEF RegIndInv, TableMatchesLive
  <2> QED BY <2>1, <2>2
<1>5. TableMatchesLive'
  BY <1>3, <1>4 DEF TableMatchesLive
<1>6. doneCloses = 0
  BY DEF RegIndInv, RegTypeOK, DoneMeansDrained
<1>7. DoneClosedOnce' /\ DoneMeansDrained' /\ NoLostWakeup'
  BY <1>6 DEF DoneClosedOnce, DoneMeansDrained, NoLostWakeup
<1>8. CallersCover'
  <2>1. \A k \in Callers : spc[k] = "idle"
    BY DEF RegIndInv, CallersCover
  <2> QED BY <2>1 DEF CallersCover
<1> QED
  BY <1>2, <1>5, <1>7, <1>8 DEF RegIndInv

\* A request that is refused was never in the table.
LEMMA RefuseStep ==
  ASSUME RegIndInv, RegTypeOK', NEW c \in Conns, Refuse(c)
  PROVE  RegIndInv'
<1> USE DEF Refuse, Cancel, tableVars, callerVars
<1>1. Live' = Live
  BY DEF RegIndInv, RegTypeOK, Live
<1>2. KeysIssued'
  BY DEF RegIndInv, RegTypeOK, KeysIssued
<1>3. TableMatchesLive'
  BY <1>1 DEF RegIndInv, TableMatchesLive
<1>4. DoneClosedOnce' /\ DoneMeansDrained' /\ NoLostWakeup'
  BY <1>1 DEF RegIndInv, DoneClosedOnce, DoneMeansDrained, NoLostWakeup
<1>5. CallersCover'
  BY <1>1 DEF RegIndInv, CallersCover
<1> QED
  BY <1>2, <1>3, <1>4, <1>5 DEF RegIndInv

\* Cancelling a context touches neither the table nor the channel.
LEMMA CancelStep ==
  ASSUME RegIndInv, RegTypeOK', NEW c \in Conns, CancelLive(c)
  PROVE  RegIndInv'
<1> USE DEF CancelLive, Cancel, tableVars, callerVars
<1>1. Live' = Live
  BY DEF Live
<1>2. KeysIssued' /\ TableMatchesLive'
  BY <1>1 DEF RegIndInv, KeysIssued, TableMatchesLive
<1>3. DoneClosedOnce' /\ DoneMeansDrained' /\ NoLostWakeup'
  BY <1>1 DEF RegIndInv, DoneClosedOnce, DoneMeansDrained, NoLostWakeup
<1>4. CallersCover'
  BY <1>1 DEF RegIndInv, CallersCover
<1> QED
  BY <1>2, <1>3, <1>4 DEF RegIndInv

\* unregister removes its own entry only, and the last one to leave after
\* Shutdown has begun closes the channel.
LEMMA UnregisterStep ==
  ASSUME RegIndInv, RegTypeOK', NEW c \in Conns, Unregister(c)
  PROVE  RegIndInv'
<1> USE DEF Unregister, UnregisterClosingIf, Cancel, callerVars
<1>1. c \in Live /\ Live' = Live \ {c}
  BY DEF RegIndInv, RegTypeOK, Live
<1>2. KeysIssued'
  BY DEF RegIndInv, RegTypeOK, KeysIssued
<1>3. \A d \in Live : sid[d] = sid[c] => d = c
  BY <1>1 DEF RegIndInv, KeysIssued, TableMatchesLive, Live
<1>4. active' = {sid'[d] : d \in Live'}
  BY <1>1, <1>3 DEF RegIndInv, TableMatchesLive
<1>5. TableMatchesLive'
  BY <1>4 DEF RegIndInv, TableMatchesLive
<1>6. active' = {} <=> Live' = {}
  BY <1>4
<1>7. doneCloses = 0
  BY <1>1 DEF RegIndInv, RegTypeOK, DoneMeansDrained
<1>8. doneCloses' = IF shuttingDown /\ Live' = {} THEN 1 ELSE 0
  BY <1>6, <1>7 DEF CloseDoneIf
<1>9. DoneClosedOnce' /\ DoneMeansDrained' /\ NoLostWakeup'
  BY <1>8 DEF DoneClosedOnce, DoneMeansDrained, NoLostWakeup
<1>10. CallersCover'
  BY <1>1, <1>7, <1>8 DEF RegIndInv, CallersCover
<1> QED
  BY <1>2, <1>5, <1>9, <1>10 DEF RegIndInv

\* Shutdown's critical section collects a cancel function for everybody live,
\* and closes the channel itself if there is nobody.
LEMMA BeginStep ==
  ASSUME RegIndInv, RegTypeOK', NEW k \in Callers, BeginShutdown(k)
  PROVE  RegIndInv'
<1> USE DEF BeginShutdown, BeginShutdownCollecting
<1>1. Live' = Live
  BY DEF Live
<1>2. KeysIssued' /\ TableMatchesLive'
  BY <1>1 DEF RegIndInv, KeysIssued, TableMatchesLive
<1>3. active = {} <=> Live = {}
  BY EmptyTable DEF RegIndInv
<1>4. doneCloses' = IF Live = {} /\ doneCloses = 0 THEN doneCloses + 1 ELSE doneCloses
  BY <1>3 DEF CloseDoneIf
<1>5. DoneClosedOnce'
  BY <1>4 DEF RegIndInv, RegTypeOK, DoneClosedOnce
<1>6. DoneMeansDrained' /\ NoLostWakeup'
  BY <1>1, <1>4 DEF RegIndInv, RegTypeOK, DoneMeansDrained, NoLostWakeup
<1>7. Live \subseteq InTable
  BY DEF RegIndInv, TableMatchesLive, InTable, Live
<1>8. CallersCover'
  <2> SUFFICES ASSUME NEW j \in Callers
               PROVE  /\ spc'[j] # "idle" =>
                           shuttingDown' /\ Live' \subseteq cancels'[j] \cup cancelled'
                      /\ spc'[j] \in {"nil", "err"} => cancels'[j] = {}
                      /\ spc'[j] = "nil" => doneCloses' > 0
    BY DEF CallersCover
  <2>1. CASE j = k
    BY <2>1, <1>1, <1>7 DEF RegIndInv, RegTypeOK
  <2>2. CASE j # k
    BY <2>2, <1>1, <1>4 DEF RegIndInv, RegTypeOK, CallersCover
  <2> QED BY <2>1, <2>2
<1> QED
  BY <1>2, <1>5, <1>6, <1>8 DEF RegIndInv

\* A cancel function that has been called need not be remembered.
LEMMA CallCancelStep ==
  ASSUME RegIndInv, RegTypeOK', NEW k \in Callers, CallCancel(k)
  PROVE  RegIndInv'
<1> USE DEF CallCancel, Cancel, tableVars
<1>1. Live' = Live
  BY DEF Live
<1>2. KeysIssued' /\ TableMatchesLive'
  BY <1>1 DEF RegIndInv, KeysIssued, TableMatchesLive
<1>3. DoneClosedOnce' /\ DoneMeansDrained' /\ NoLostWakeup'
  BY <1>1 DEF RegIndInv, DoneClosedOnce, DoneMeansDrained, NoLostWakeup
<1>4. PICK c \in cancels[k] : /\ cancelled' = cancelled \cup {c}
                              /\ cancels' = [cancels EXCEPT ![k] = @ \ {c}]
  OBVIOUS
<1>5. CallersCover'
  <2> SUFFICES ASSUME NEW j \in Callers
               PROVE  /\ spc'[j] # "idle" =>
                           shuttingDown' /\ Live' \subseteq cancels'[j] \cup cancelled'
                      /\ spc'[j] \in {"nil", "err"} => cancels'[j] = {}
                      /\ spc'[j] = "nil" => doneCloses' > 0
    BY DEF CallersCover
  <2>1. cancels'[j] = IF j = k THEN cancels[k] \ {c} ELSE cancels[j]
    BY <1>4 DEF RegIndInv, RegTypeOK
  <2> QED
    BY <2>1, <1>1, <1>4 DEF RegIndInv, CallersCover
<1> QED
  BY <1>2, <1>3, <1>5 DEF RegIndInv

\* Returning leaves everything but the caller's own position alone.
LEMMA ReturnStep ==
  ASSUME RegIndInv, RegTypeOK', NEW k \in Callers, ReturnDone(k) \/ ReturnExpired(k)
  PROVE  RegIndInv'
<1> USE DEF ReturnDone, ReturnExpired, ReturnExpiredEarly, tableVars
<1>1. Live' = Live
  BY DEF Live
<1>2. KeysIssued' /\ TableMatchesLive'
  BY <1>1 DEF RegIndInv, KeysIssued, TableMatchesLive
<1>3. DoneClosedOnce' /\ DoneMeansDrained' /\ NoLostWakeup'
  BY <1>1 DEF RegIndInv, DoneClosedOnce, DoneMeansDrained, NoLostWakeup
<1>4. CallersCover'
  BY <1>1 DEF RegIndInv, RegTypeOK, CallersCover
<1> QED
  BY <1>2, <1>3, <1>4 DEF RegIndInv

\* So is a step that changes nothing the invariant reads.
LEMMA QuietStep ==
  ASSUME RegIndInv, RegTypeOK',
         (\E k \in Callers : Expire(k)) \/ UNCHANGED regVars
  PROVE  RegIndInv'
<1>1. UNCHANGED <<tableVars, life, sid, cancelled, spc, cancels>>
  BY DEF Expire, regVars, callerVars
<1>2. Live' = Live
  BY <1>1 DEF Live
<1>3. KeysIssued' /\ TableMatchesLive'
  BY <1>1, <1>2 DEF RegIndInv, KeysIssued, TableMatchesLive, tableVars
<1>4. DoneClosedOnce' /\ DoneMeansDrained' /\ NoLostWakeup'
  BY <1>1, <1>2 DEF RegIndInv, DoneClosedOnce, DoneMeansDrained, NoLostWakeup, tableVars
<1>5. CallersCover'
  BY <1>1, <1>2 DEF RegIndInv, CallersCover, tableVars
<1> QED
  BY <1>3, <1>4, <1>5 DEF RegIndInv

\* Every step of the table preserves the inductive invariant.
LEMMA IndStep == RegIndInv /\ [RegNext]_regVars => RegIndInv'
<1> SUFFICES ASSUME RegIndInv, [RegNext]_regVars PROVE RegIndInv'
  OBVIOUS
<1>1. RegTypeOK'
  BY TypeStep DEF RegIndInv
<1> QED
  BY <1>1, RegisterStep, RefuseStep, CancelStep, UnregisterStep, BeginStep,
     CallCancelStep, ReturnStep, QuietStep DEF RegNext, ShutdownStep

\* The inductive invariant of the session table holds in every behaviour.
THEOREM IndInvHolds == RegSpec => []RegIndInv
  BY IndInit, IndStep, PTL DEF RegSpec

-----------------------------------------------------------------------------
\* What the invariant gives: no double close, no lost wake-up, a nil that
\* means quiescence, and a return that means everybody was told.
LEMMA InvGives ==
  RegIndInv => DoneClosedOnce /\ NoLostWakeup /\ NilMeansQuiescent
               /\ ReturnMeansCancelled /\ TableMatchesLive
<1> SUFFICES ASSUME RegIndInv
             PROVE NilMeansQuiescent /\ ReturnMeansCancelled
  BY DEF RegIndInv
<1>1. NilMeansQuiescent
  BY DEF RegIndInv, NilMeansQuiescent, CallersCover, DoneMeansDrained
<1>2. ReturnMeansCancelled
  BY DEF RegIndInv, ReturnMeansCancelled, CallersCover
<1> QED BY <1>1, <1>2

\* close(h.shutdownDone) runs at most once, for any number of Shutdown calls.
THEOREM DoneClosedOnceHolds == RegSpec => []DoneClosedOnce
  BY IndInvHolds, InvGives, PTL

\* No close of the channel is missed, so nobody waits in vain.
THEOREM NoLostWakeupHolds == RegSpec => []NoLostWakeup
  BY IndInvHolds, InvGives, PTL

\* A nil from Shutdown means that no ServeHTTP is in progress.
THEOREM NilMeansQuiescentHolds == RegSpec => []NilMeansQuiescent
  BY IndInvHolds, InvGives, PTL

\* A Shutdown call that has returned, with or without an error, leaves nobody
\* running uncancelled.
THEOREM ReturnMeansCancelledHolds == RegSpec => []ReturnMeansCancelled
  BY IndInvHolds, InvGives, PTL

\* Every live request has a table entry of its own, and there are no others.
THEOREM TableMatchesLiveHolds == RegSpec => []TableMatchesLive
  BY IndInvHolds, InvGives, PTL

-----------------------------------------------------------------------------
(* Refinement: the table, its mutex and its channel do what Shutdown       *)
(* promises.                                                               *)

Verdict == [k \in Callers |-> IF spc[k] \in {"nil", "err"} THEN spc[k] ELSE "none"]

\* The table starts open, with nobody running, nobody told and no verdict.
LEMMA ContractStart == RegInit => Contract!ContractInit
<1> SUFFICES ASSUME RegInit PROVE Contract!ContractInit
  OBVIOUS
<1>1. (~shuttingDown) = TRUE
  BY DEF RegInit
<1>2. Live = {} /\ cancelled = {}
  BY DEF RegInit, Live
<1>3. Verdict = [k \in Callers |-> "none"]
  BY DEF RegInit, Verdict
<1> QED
  BY <1>1, <1>2, <1>3 DEF Contract!ContractInit, Verdict

\* Steps of the requests: admit, tell, finish.
LEMMA RequestStepsRefine ==
  ASSUME RegIndInv, NEW c \in Conns,
         Register(c) \/ Refuse(c) \/ CancelLive(c) \/ Unregister(c)
  PROVE  Contract!Admit(c) \/ Contract!Tell(c) \/ Contract!Finish(c)
<1>1. CASE Register(c)
  <2>1. ~shuttingDown /\ ~shuttingDown'
    BY <1>1 DEF Register, RegisterUnderKey
  <2>2. Live' = Live \cup {c}
    BY <1>1 DEF Register, RegisterUnderKey, RegIndInv, RegTypeOK, Live
  <2>3. cancelled' = cancelled /\ spc' = spc
    BY <1>1 DEF Register, RegisterUnderKey, callerVars
  <2> QED BY <2>1, <2>2, <2>3 DEF Contract!Admit
<1>2. CASE Refuse(c)
  <2>1. shuttingDown' = shuttingDown /\ spc' = spc /\ cancelled' = cancelled \cup {c}
    BY <1>2 DEF Refuse, Cancel, tableVars, callerVars
  <2>2. Live' = Live
    BY <1>2 DEF Refuse, RegIndInv, RegTypeOK, Live
  <2> QED BY <2>1, <2>2 DEF Contract!Tell
<1>3. CASE CancelLive(c)
  <2>1. shuttingDown' = shuttingDown /\ spc' = spc /\ cancelled' = cancelled \cup {c}
    BY <1>3 DEF CancelLive, Cancel, tableVars, callerVars
  <2>2. Live' = Live
    BY <1>3 DEF CancelLive, Live
  <2> QED BY <2>1, <2>2 DEF Contract!Tell
<1>4. CASE Unregister(c)
  <2>1. shuttingDown' = shuttingDown /\ spc' = spc /\ cancelled' = cancelled \cup {c}
    BY <1>4 DEF Unregister, UnregisterClosingIf, Cancel, callerVars
  <2>2. Live' = Live \ {c}
    BY <1>4 DEF Unregister, UnregisterClosingIf, RegIndInv, RegTypeOK, Live
  <2> QED BY <2>1, <2>2 DEF Contract!Finish
<1> QED
  BY <1>1, <1>2, <1>3, <1>4

\* Steps of a Shutdown call: stop accepting, tell, return.
LEMMA CallerStepsRefine ==
  ASSUME RegIndInv, NEW k \in Callers, ShutdownStep(k)
  PROVE  \/ Contract!StopAccepting
         \/ \E c \in Conns : Contract!Tell(c)
         \/ Contract!ReturnNil(k) \/ Contract!ReturnErr(k)
<1>1. CASE BeginShutdown(k)
  <2>1. shuttingDown' = TRUE /\ cancelled' = cancelled /\ Live' = Live
    BY <1>1 DEF BeginShutdown, BeginShutdownCollecting, Live
  <2>2. Verdict' = Verdict
    BY <1>1 DEF BeginShutdown, BeginShutdownCollecting, Verdict, RegIndInv, RegTypeOK
  <2>3. Contract!StopAccepting
    BY <2>1, <2>2 DEF Contract!StopAccepting, Verdict
  <2> QED BY <2>3
<1>2. CASE CallCancel(k)
  <2>1. PICK c \in cancels[k] : cancelled' = cancelled \cup {c}
    BY <1>2 DEF CallCancel, Cancel
  <2>2. c \in Conns
    BY <2>1 DEF RegIndInv, RegTypeOK
  <2>3. shuttingDown' = shuttingDown /\ spc' = spc /\ Live' = Live
    BY <1>2 DEF CallCancel, tableVars, Live
  <2>4. Contract!Tell(c)
    BY <2>1, <2>3 DEF Contract!Tell
  <2> QED BY <2>2, <2>4
<1>3. CASE ReturnDone(k)
  <2>1. /\ shuttingDown' = shuttingDown /\ Live' = Live /\ cancelled' = cancelled
        /\ Verdict[k] = "none"
        /\ Verdict' = [Verdict EXCEPT ![k] = "nil"]
    BY <1>3 DEF ReturnDone, tableVars, Live, Verdict, RegIndInv, RegTypeOK
  <2>2. shuttingDown /\ Live = {}
    BY <1>3 DEF ReturnDone, RegIndInv, DoneMeansDrained
  <2>3. Contract!ReturnNil(k)
    BY <2>1, <2>2 DEF Contract!ReturnNil, Verdict
  <2> QED BY <2>3
<1>4. CASE ReturnExpired(k)
  <2> USE <1>4 DEF ReturnExpired, ReturnExpiredEarly
  <2>1. /\ shuttingDown' = shuttingDown /\ Live' = Live /\ cancelled' = cancelled
        /\ Verdict[k] = "none"
        /\ Verdict' = [Verdict EXCEPT ![k] = "err"]
    BY DEF tableVars, Live, Verdict, RegIndInv, RegTypeOK
  <2>2. shuttingDown /\ Live \subseteq cancelled
    BY DEF RegIndInv, CallersCover
  <2>3. Contract!ReturnErr(k)
    BY <2>1, <2>2 DEF Contract!ReturnErr, Verdict
  <2> QED BY <2>3
<1> QED
  BY <1>1, <1>2, <1>3, <1>4 DEF ShutdownStep

\* Every step of the table is a step of the contract or leaves it alone.
LEMMA ContractStep ==
  RegIndInv /\ [RegNext]_regVars => [Contract!ContractNext]_(Contract!contractVars)
<1> SUFFICES ASSUME RegIndInv, [RegNext]_regVars
             PROVE [Contract!ContractNext]_(Contract!contractVars)
  OBVIOUS
<1>1. ASSUME NEW c \in Conns, Register(c) \/ Refuse(c) \/ CancelLive(c) \/ Unregister(c)
      PROVE Contract!ContractNext
  BY <1>1, RequestStepsRefine DEF Contract!ContractNext
<1>2. ASSUME NEW k \in Callers, ShutdownStep(k) PROVE Contract!ContractNext
  BY <1>2, CallerStepsRefine DEF Contract!ContractNext
<1>3. CASE (\E k \in Callers : Expire(k)) \/ UNCHANGED regVars
  <2>1. UNCHANGED <<shuttingDown, life, cancelled, spc>>
    BY <1>3 DEF Expire, regVars, tableVars, callerVars
  <2> QED BY <2>1 DEF Contract!contractVars, Live
<1> QED
  BY <1>1, <1>2, <1>3 DEF RegNext

\* The session table implements the contract of Shutdown, for every number of
\* requests and of Shutdown calls.
THEOREM RegistryImplementsContract == RegSpec => ImplementsContract
<1>1. RegInit => Contract!ContractInit
  BY ContractStart
<1>2. RegIndInv /\ [RegNext]_regVars => [Contract!ContractNext]_(Contract!contractVars)
  BY ContractStep
<1> QED
  BY <1>1, <1>2, IndInvHolds, PTL DEF RegSpec, ImplementsContract, Contract!ContractSpec
=============================================================================
