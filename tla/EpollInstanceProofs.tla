-------------------------- MODULE EpollInstanceProofs --------------------------
(***************************************************************************)
(* Proofs about EpollInstance for every number of listeners and every      *)
(* length of the events array.  The assumption ~HandlersReap of the        *)
(* theorems is the one the run EpollReap shows to be needed.  Nothing is   *)
(* assumed of what handlers remove.                                        *)
(***************************************************************************)
EXTENDS EpollInstance, TLAPS

\* Ids below m_current_id are the ones that exist or existed.
IdsHandedOut == listeners \cup txIds \cup batch \cup ({running} \ {None}) \subseteq 0 .. nextId - 1

\* An event is taken out of the batch when its handler is called.
RunningLeftBatch == running \notin batch

\* A listener's process has not been reaped behind the monitor's back.
NotReaped == \A i \in listeners : child[i] # "reaped"

\* A transaction that a handler opened is as old as that handler: what it
\* added cannot be in the batch, which was filled before.
TxScope == /\ tx = "none" => txIds = {} /\ txOwner = None
           /\ txOwner # None => /\ running = txOwner
                                /\ txIds \cap (batch \cup {running}) = {}

IInv == /\ TypeOK
        /\ InterestMatchesListeners
        /\ NoDescriptorLeak
        /\ NoOrphans
        /\ IdsHandedOut
        /\ RunningLeftBatch
        /\ NotReaped
        /\ TxScope

LEMMA ToEpollType == \A s \in activity_status : to_epoll_event(s) \in SUBSET {"in", "out"}
  BY DEF activity_status, to_epoll_event

\* The kernel's side of the monitor, as far as adding and erasing change it.
KernelTypeOK == /\ listeners \subseteq Ids /\ registered \subseteq Ids /\ open \subseteq Ids
                /\ mask \in [Ids -> SUBSET {"in", "out"}]
                /\ ready \in [Ids -> SUBSET Flags]
                /\ child \in [Ids -> Children]

\* Both sides agree, and processes live exactly as long as their entries.
Agreement == /\ InterestMatchesListeners /\ NoDescriptorLeak
             /\ NoOrphans /\ NotReaped

\* Erasing entries whose processes were not reaped elsewhere keeps both sides
\* in agreement, with EPOLL_CTL_DEL (D) or without.
LEMMA DestroyAgrees ==
    ASSUME KernelTypeOK, Agreement, NEW S \in SUBSET listeners, NEW D \in SUBSET S,
           Destroy(S, D)
    PROVE  KernelTypeOK' /\ Agreement' /\ listeners' = listeners \ S
<1>1. \A i \in S : Closes(i)
  BY DEF Agreement, NotReaped, Closes
<1>2. {i \in S : Closes(i)} = S
  BY <1>1
<1>3. /\ listeners' = listeners \ S
      /\ open' = open \ S
      /\ registered' = registered \ S
  BY <1>2 DEF Destroy
<1>4. KernelTypeOK'
  <2>1. child' \in [Ids -> Children]
    BY DEF KernelTypeOK, Destroy, Children
  <2>2. ready' \in [Ids -> SUBSET Flags]
    BY DEF KernelTypeOK, Destroy
  <2>3. mask' \in [Ids -> SUBSET {"in", "out"}]
    BY DEF KernelTypeOK, Destroy
  <2> QED
    BY <1>3, <2>1, <2>2, <2>3 DEF KernelTypeOK
<1>5. Agreement'
  <2>1. NoOrphans' /\ NotReaped'
    BY <1>3 DEF KernelTypeOK, Agreement, NoOrphans, NotReaped, Destroy, Children
  <2> QED
    BY <1>3, <2>1 DEF Agreement, InterestMatchesListeners, NoDescriptorLeak
<1> QED
  BY <1>3, <1>4, <1>5

\* A successful add() keeps both sides in agreement.
LEMMA AddSucceedsAgrees ==
    ASSUME KernelTypeOK, Agreement, nextId \in 0 .. MaxAdds,
           NEW kind \in Kinds, NEW status \in Statuses, AddSucceeds(kind, status)
    PROVE  /\ KernelTypeOK' /\ Agreement'
           /\ nextId \in Ids /\ nextId' = nextId + 1 /\ nextId' \in 0 .. MaxAdds
           /\ listeners' = listeners \cup {nextId} /\ UNCHANGED loopVars
<1>1. nextId \in Ids /\ nextId' \in 0 .. MaxAdds
  BY BoundAssumption DEF AddSucceeds, Ids
<1>2. kind \in {"not_a_pidfd", "alive"}
  BY DEF Kinds
<1>3. to_epoll_event(status) \in SUBSET {"in", "out"}
  BY ToEpollType, UsageAssumption
<1>4. KernelTypeOK'
  BY <1>1, <1>2, <1>3 DEF AddSucceeds, KernelTypeOK, Children
<1>5. Agreement'
  BY <1>1, <1>2
  DEF AddSucceeds, KernelTypeOK, Agreement, InterestMatchesListeners, NoDescriptorLeak,
      NoOrphans, NotReaped
<1> QED
  BY <1>1, <1>4, <1>5 DEF AddSucceeds

\* So does one that fails.
LEMMA AddFailsAgrees ==
    ASSUME KernelTypeOK, Agreement, nextId \in 0 .. MaxAdds,
           listeners \subseteq 0 .. nextId - 1, NEW kind \in Kinds, AddFails(kind)
    PROVE  /\ KernelTypeOK' /\ Agreement'
           /\ nextId \in Ids /\ nextId' = nextId + 1 /\ nextId' \in 0 .. MaxAdds
           /\ listeners' = listeners /\ UNCHANGED loopVars
<1>1. nextId \in Ids /\ nextId' \in 0 .. MaxAdds /\ nextId \notin listeners
  BY BoundAssumption DEF AddFails, Ids
<1>2. kind \in {"not_a_pidfd", "alive"}
  BY DEF Kinds
<1>3. KernelTypeOK'
  BY <1>1, <1>2 DEF AddFails, KernelTypeOK, Children
<1>4. Agreement'
  BY <1>1, <1>2
  DEF AddFails, KernelTypeOK, Agreement, InterestMatchesListeners, NoDescriptorLeak,
      NoOrphans, NotReaped
<1> QED
  BY <1>1, <1>3, <1>4 DEF AddFails

\* The side of the loop and of the transaction.
LoopTypeOK == /\ nextId \in 0 .. MaxAdds
              /\ batch \subseteq Ids
              /\ reported \in [Ids -> SUBSET Flags]
              /\ running \in Ids \cup {None}
              /\ stop \in BOOLEAN /\ undefined \in BOOLEAN
              /\ tx \in {"none", "open", "failed"}
              /\ txOwner \in Ids \cup {None}
              /\ txIds \subseteq Ids

LEMMA IInvParts ==
    IInv <=> /\ KernelTypeOK /\ Agreement /\ LoopTypeOK
             /\ IdsHandedOut /\ RunningLeftBatch /\ TxScope
  BY DEF IInv, TypeOK, KernelTypeOK, Agreement, LoopTypeOK

LEMMA IInvPartsPrimed ==
    /\ KernelTypeOK' /\ Agreement' /\ LoopTypeOK'
    /\ IdsHandedOut' /\ RunningLeftBatch' /\ TxScope'
    => IInv'
  BY DEF IInv, TypeOK, KernelTypeOK, Agreement, LoopTypeOK

\* The inductive invariant holds initially.
LEMMA InitIInv == Init => IInv
<1> SUFFICES ASSUME Init PROVE IInv
  OBVIOUS
<1>1. KernelTypeOK /\ Agreement
  BY DEF Init, KernelTypeOK, Agreement, InterestMatchesListeners, NoDescriptorLeak,
         NoOrphans, NotReaped, Children
<1>2. LoopTypeOK
  <2>1. nextId \in 0 .. MaxAdds
    BY BoundAssumption DEF Init
  <2>2. reported \in [Ids -> SUBSET Flags]
    BY DEF Init
  <2> QED
    BY <2>1, <2>2, Zenon DEF Init, LoopTypeOK
<1>3. IdsHandedOut /\ RunningLeftBatch /\ TxScope
  BY DEF Init, IdsHandedOut, RunningLeftBatch, TxScope
<1> QED
  BY <1>1, <1>2, <1>3, IInvParts

\* The id that add() takes is not that of an event, nor of the running handler.
LEMMA NextIsNew ==
    ASSUME IInv, nextId \in Ids
    PROVE  nextId \in Nat /\ nextId \notin batch \cup {running}
<1>1. nextId \in Nat /\ nextId # None
  BY BoundAssumption, NoneAssumption DEF Ids
<1> QED
  BY <1>1 DEF IInv, IdsHandedOut

\* Steps of the loop alone.
LEMMA KernelUnchanged ==
    ASSUME KernelTypeOK, Agreement, UNCHANGED <<listeners, kernelVars>>
    PROVE  KernelTypeOK' /\ Agreement'
  BY DEF KernelTypeOK, Agreement, kernelVars, InterestMatchesListeners, NoDescriptorLeak,
         NoOrphans, NotReaped

\* Steps of the kernel alone.
LEMMA LoopUnchanged ==
    ASSUME IInv, UNCHANGED <<nextId, listeners, loopVars, txVars>>
    PROVE  LoopTypeOK' /\ IdsHandedOut' /\ RunningLeftBatch' /\ TxScope'
  BY IInvParts
  DEF loopVars, txVars, LoopTypeOK, IdsHandedOut, RunningLeftBatch, TxScope

LEMMA UndefinedKeepsScope ==
    ASSUME IInv, Undefined
    PROVE  LoopTypeOK' /\ IdsHandedOut' /\ RunningLeftBatch' /\ TxScope'
  BY IInvParts
  DEF Undefined, txVars, LoopTypeOK, IdsHandedOut, RunningLeftBatch, TxScope

\* Every step of the monitor, of a handler and of the world keeps the
\* inductive invariant, as long as handlers do not reap.
LEMMA NextIInv == ASSUME ~HandlersReap, IInv, [Next]_vars PROVE IInv'
<1> USE DEF InOwnTx, CallerRuns, Idle, InHandler
<1>1. /\ KernelTypeOK /\ Agreement /\ LoopTypeOK
      /\ IdsHandedOut /\ RunningLeftBatch /\ TxScope
  BY IInvParts
<1>2. None \notin Ids
  BY NoneAssumption, BoundAssumption DEF Ids
<1>3. nextId \in Nat
  BY <1>1, BoundAssumption DEF LoopTypeOK
<1>4. CASE Add
  <2>1. PICK kind \in Kinds : \/ \E status \in Statuses : AddSucceeds(kind, status)
                              \/ AddFails(kind)
    BY <1>4 DEF Add
  <2>2. /\ KernelTypeOK' /\ Agreement'
        /\ nextId \in Ids /\ nextId' = nextId + 1 /\ nextId' \in 0 .. MaxAdds
        /\ listeners' \in {listeners, listeners \cup {nextId}} /\ UNCHANGED loopVars
    BY <1>1, <2>1, AddSucceedsAgrees, AddFailsAgrees DEF LoopTypeOK, IdsHandedOut
  <2>3. LoopTypeOK' /\ TxScope' /\ RunningLeftBatch'
    BY <1>1, <1>4, <2>2 DEF Add, LoopTypeOK, TxScope, RunningLeftBatch, loopVars, txVars
  <2>4. IdsHandedOut'
    BY <1>1, <1>4, <1>3, <2>2 DEF Add, IdsHandedOut, loopVars, txVars
  <2> QED
    BY <2>2, <2>3, <2>4, IInvPartsPrimed
<1>5. CASE TxBegin
  <2>1. KernelTypeOK' /\ Agreement'
    BY <1>1, <1>5, KernelUnchanged DEF TxBegin
  <2>2. LoopTypeOK' /\ IdsHandedOut' /\ RunningLeftBatch'
    BY <1>1, <1>5
    DEF TxBegin, loopVars, LoopTypeOK, IdsHandedOut, RunningLeftBatch
  <2>3. TxScope'
    BY <1>1, <1>5 DEF TxBegin, loopVars, TxScope
  <2> QED
    BY <2>1, <2>2, <2>3, IInvPartsPrimed
<1>6. CASE TxAdd
  <2>1. PICK kind \in Kinds :
            \/ /\ \E status \in Statuses : AddSucceeds(kind, status)
               /\ txIds' = txIds \cup {nextId}
               /\ UNCHANGED <<tx, txOwner>>
            \/ AddFails(kind) /\ tx' = "failed" /\ UNCHANGED <<txOwner, txIds>>
    BY <1>6 DEF TxAdd
  <2>2. /\ KernelTypeOK' /\ Agreement'
        /\ nextId \in Ids /\ nextId' = nextId + 1 /\ nextId' \in 0 .. MaxAdds
        /\ listeners' \in {listeners, listeners \cup {nextId}} /\ UNCHANGED loopVars
    BY <1>1, <2>1, AddSucceedsAgrees, AddFailsAgrees DEF LoopTypeOK, IdsHandedOut
  <2>3. nextId \notin batch \cup {running} /\ RunningLeftBatch'
    BY <1>1, <2>2, NextIsNew DEF RunningLeftBatch, loopVars
  <2>4. /\ txIds' \in {txIds, txIds \cup {nextId}}
        /\ tx' \in {"open", "failed"} /\ txOwner' = txOwner /\ tx = "open"
    BY <1>6, <2>1 DEF TxAdd
  <2>5. LoopTypeOK'
    BY <1>1, <2>2, <2>4 DEF LoopTypeOK, loopVars
  <2>6. TxScope'
    BY <1>1, <2>2, <2>3, <2>4 DEF TxScope, loopVars
  <2>7. IdsHandedOut'
    BY <1>1, <1>3, <2>2, <2>4 DEF IdsHandedOut, loopVars
  <2> QED
    BY <2>2, <2>3, <2>5, <2>6, <2>7, IInvPartsPrimed
<1>7. CASE Commit
  <2>1. KernelTypeOK' /\ Agreement'
    BY <1>1, <1>7, KernelUnchanged DEF Commit
  <2>2. LoopTypeOK' /\ IdsHandedOut' /\ RunningLeftBatch' /\ TxScope'
    BY <1>1, <1>7
    DEF Commit, TxEnd, loopVars, LoopTypeOK, IdsHandedOut,
        RunningLeftBatch, TxScope
  <2> QED
    BY <2>1, <2>2, IInvPartsPrimed
<1>8. CASE Rollback
  <2>1. KernelTypeOK' /\ Agreement' /\ listeners' = listeners \ (txIds \cap listeners)
    BY <1>1, <1>8, DestroyAgrees DEF Rollback
  <2>2. LoopTypeOK' /\ IdsHandedOut' /\ RunningLeftBatch' /\ TxScope'
    BY <1>1, <1>8, <2>1
    DEF Rollback, TxEnd, loopVars, LoopTypeOK, IdsHandedOut, RunningLeftBatch, TxScope
  <2> QED
    BY <2>1, <2>2, IInvPartsPrimed
<1>9. ASSUME NEW i \in Ids, Remove(i) PROVE IInv'
  <2>1. KernelTypeOK' /\ Agreement' /\ listeners' = listeners \ {i}
    BY <1>1, <1>9, DestroyAgrees DEF Remove
  <2>2. LoopTypeOK' /\ IdsHandedOut' /\ RunningLeftBatch' /\ TxScope'
    BY <1>1, <1>9, <2>1
    DEF Remove, loopVars, txVars, LoopTypeOK, IdsHandedOut,
        RunningLeftBatch, TxScope
  <2> QED
    BY <2>1, <2>2, IInvPartsPrimed
<1>10. ASSUME NEW S \in SUBSET Ids, Wait(S) PROVE IInv'
  <2>1. KernelTypeOK' /\ Agreement'
    BY <1>1, <1>10, KernelUnchanged DEF Wait
  <2>2. S \subseteq listeners
    BY <1>1, <1>10 DEF Wait, Reportable, Agreement, InterestMatchesListeners
  <2>3. reported' \in [Ids -> SUBSET Flags]
    BY <1>1, <1>10 DEF Wait, Events, KernelTypeOK
  <2>4. LoopTypeOK'
    BY <1>1, <1>10, <2>3 DEF Wait, LoopTypeOK, txVars
  <2>5. IdsHandedOut' /\ RunningLeftBatch' /\ TxScope'
    BY <1>1, <1>10, <1>2, <2>2
    DEF Wait, txVars, IdsHandedOut, RunningLeftBatch, TxScope
  <2> QED
    BY <2>1, <2>4, <2>5, IInvPartsPrimed
<1>11. ASSUME NEW i \in Ids, BeginHandler(i) PROVE IInv'
  <2>1. CASE Undefined
    BY <1>1, <2>1, KernelUnchanged, UndefinedKeepsScope, IInvPartsPrimed DEF Undefined
  <2>2. CASE ~Undefined
    <3>1. KernelTypeOK' /\ Agreement'
      BY <1>1, <1>11, <2>2, KernelUnchanged DEF BeginHandler
    <3>2. txOwner = None
      BY <1>1, <1>11 DEF BeginHandler, TxScope
    <3>3. LoopTypeOK' /\ IdsHandedOut' /\ RunningLeftBatch' /\ TxScope'
      BY <1>1, <1>11, <2>2, <3>2, Zenon
      DEF BeginHandler, txVars, LoopTypeOK, IdsHandedOut, RunningLeftBatch, TxScope
    <3> QED
      BY <3>1, <3>3, IInvPartsPrimed
  <2> QED
    BY <2>1, <2>2
<1>12. ASSUME NEW status \in Statuses, update_listening_status(status) PROVE IInv'
  <2>1. CASE Undefined
    BY <1>1, <2>1, KernelUnchanged, UndefinedKeepsScope, IInvPartsPrimed DEF Undefined
  <2>2. CASE ~Undefined
    <3>1. to_epoll_event(status) \in SUBSET {"in", "out"}
      BY ToEpollType, UsageAssumption
    <3>2. KernelTypeOK' /\ Agreement'
      BY <1>1, <1>12, <2>2, <3>1
      DEF update_listening_status, KernelTypeOK, Agreement, InterestMatchesListeners,
          NoDescriptorLeak, NoOrphans, NotReaped
    <3> QED
      BY <1>12, <2>2, <3>2, LoopUnchanged, IInvPartsPrimed DEF update_listening_status
  <2> QED
    BY <2>1, <2>2
<1>13. CASE stop_listening
  <2>1. KernelTypeOK' /\ Agreement'
    BY <1>1, <1>13, KernelUnchanged DEF stop_listening
  <2>2. LoopTypeOK' /\ IdsHandedOut' /\ RunningLeftBatch' /\ TxScope'
    BY <1>1, <1>13, Zenon
    DEF stop_listening, txVars, LoopTypeOK, IdsHandedOut,
        RunningLeftBatch, TxScope
  <2> QED
    BY <2>1, <2>2, IInvPartsPrimed
<1>14. CASE \E flag \in Flags : Consumes(flag)
  <2>1. KernelTypeOK' /\ Agreement'
    <3>1. KernelTypeOK'
      BY <1>1, <1>14 DEF Consumes, KernelTypeOK
    <3>2. UNCHANGED <<listeners, registered, open, child>>
      BY <1>14 DEF Consumes
    <3> QED
      BY <1>1, <3>1, <3>2
      DEF Agreement, InterestMatchesListeners, NoDescriptorLeak, NoOrphans, NotReaped
  <2> QED
    BY <1>14, <2>1, LoopUnchanged, IInvPartsPrimed DEF Consumes
<1>15. CASE Reaps
  BY <1>15 DEF Reaps
<1>16. CASE HandlerReturns
  <2>1. CASE Undefined
    BY <1>1, <2>1, KernelUnchanged, UndefinedKeepsScope, IInvPartsPrimed DEF Undefined
  <2>2. CASE ~Undefined
    <3>1. stop => running \in listeners
      BY <1>16, <2>2 DEF HandlerReturns
    <3>2. /\ KernelTypeOK' /\ Agreement'
          /\ listeners' \in {listeners, listeners \ {running}}
      <4>1. CASE stop
        BY <1>1, <1>16, <2>2, <3>1, <4>1, DestroyAgrees DEF HandlerReturns
      <4>2. CASE ~stop
        BY <1>1, <1>16, <2>2, <4>2, KernelUnchanged DEF HandlerReturns
      <4> QED
        BY <4>1, <4>2
    <3>3. reported' \in [Ids -> SUBSET Flags]
      BY <1>1, <1>16, <2>2 DEF HandlerReturns, LoopTypeOK
    <3>4. txOwner = None
      BY <1>1, <1>16 DEF HandlerReturns, TxScope
    <3>5. LoopTypeOK' /\ TxScope'
      BY <1>1, <1>16, <2>2, <3>3, <3>4, Zenon DEF HandlerReturns, txVars, LoopTypeOK, TxScope
    <3>6. IdsHandedOut' /\ RunningLeftBatch'
      BY <1>1, <1>16, <1>2, <2>2, <3>2
      DEF HandlerReturns, txVars, LoopTypeOK, IdsHandedOut, RunningLeftBatch
    <3> QED
      BY <3>2, <3>5, <3>6, IInvPartsPrimed
  <2> QED
    BY <2>1, <2>2
<1>17. CASE HandlerThrows
  <2>1. KernelTypeOK' /\ Agreement'
    BY <1>1, <1>17, KernelUnchanged DEF HandlerThrows
  <2>2. txOwner = None
    BY <1>1, <1>17 DEF HandlerThrows, TxScope
  <2>3. reported' \in [Ids -> SUBSET Flags]
    BY <1>17 DEF HandlerThrows
  <2>4. LoopTypeOK' /\ IdsHandedOut' /\ RunningLeftBatch' /\ TxScope'
    BY <1>1, <1>17, <2>2, <2>3, Zenon
    DEF HandlerThrows, txVars, LoopTypeOK, IdsHandedOut,
        RunningLeftBatch, TxScope
  <2> QED
    BY <2>1, <2>4, IInvPartsPrimed
<1>18. CASE Environment
  <2>1. PICK i \in Ids : (\E flag \in PeerFlags : PeerActs(i, flag)) \/ ChildExits(i)
    BY <1>18 DEF Environment
  <2>2. KernelTypeOK' /\ Agreement'
    <3>1. CASE \E flag \in PeerFlags : PeerActs(i, flag)
      BY <1>1, <3>1, UsageAssumption
      DEF PeerActs, KernelTypeOK, Agreement, InterestMatchesListeners, NoDescriptorLeak,
          NoOrphans, NotReaped
    <3>2. CASE ChildExits(i)
      BY <1>1, <3>2
      DEF ChildExits, KernelTypeOK, Agreement, InterestMatchesListeners, NoDescriptorLeak,
          NoOrphans, NotReaped, Children, Flags
    <3> QED
      BY <2>1, <3>1, <3>2
  <2> QED
    BY <2>1, <2>2, LoopUnchanged, IInvPartsPrimed DEF PeerActs, ChildExits
<1>19. CASE Unknown \/ UNCHANGED vars
  BY <1>1, <1>19, KernelUnchanged, LoopUnchanged, IInvPartsPrimed DEF Unknown, vars
<1> QED
  BY <1>4, <1>5, <1>6, <1>7, <1>8, <1>9, <1>10, <1>11, <1>12, <1>13, <1>14, <1>15,
     <1>16, <1>17, <1>18, <1>19 DEF Next, Handler

THEOREM Invariance == ASSUME ~HandlersReap PROVE Spec => []IInv
<1>1. IInv /\ [Next]_vars => IInv'
  BY NextIInv
<1> QED
  BY InitIInv, <1>1, PTL DEF Spec

\* Types of the loop, of the transaction and of the kernel's side.
THEOREM TypeCorrect == ASSUME ~HandlersReap PROVE Spec => []TypeOK
<1>1. IInv => TypeOK
  BY DEF IInv
<1> QED
  BY <1>1, Invariance, PTL

\* m_listeners and the interest list of the kernel always agree.
THEOREM KernelAgrees == ASSUME ~HandlersReap PROVE Spec => []InterestMatchesListeners
<1>1. IInv => InterestMatchesListeners
  BY DEF IInv
<1> QED
  BY <1>1, Invariance, PTL

\* Whatever fails or throws, no descriptor stays open without a listener, and no
\* listener is without its descriptor.
THEOREM DescriptorsAreOwned == ASSUME ~HandlersReap PROVE Spec => []NoDescriptorLeak
<1>1. IInv => NoDescriptorLeak
  BY DEF IInv
<1> QED
  BY <1>1, Invariance, PTL

\* No process outlives the entry that its pidfd belongs to, whichever way it went.
THEOREM ProcessesAreOwned == ASSUME ~HandlersReap PROVE Spec => []NoOrphans
<1>1. IInv => NoOrphans
  BY DEF IInv
<1> QED
  BY <1>1, Invariance, PTL

--------------------------------------------------------------------------------
(* Action properties. *)

\* What any step does to the set of listeners.
LEMMA ListenersChange ==
    ASSUME IInv, [Next]_vars
    PROVE  /\ nextId' \in {nextId, nextId + 1}
           /\ listeners' \subseteq listeners \cup {nextId}
<1> USE DEF Destroy
<1>1. CASE Add \/ TxAdd
  BY <1>1 DEF Add, TxAdd, AddSucceeds, AddFails
<1>2. CASE Rollback \/ \E i \in Ids : Remove(i)
  BY <1>2 DEF Rollback, Remove
<1>3. CASE HandlerReturns
  BY <1>3 DEF HandlerReturns, Undefined
<1>4. CASE TxBegin \/ Commit \/ HandlerThrows \/ stop_listening \/ Reaps \/ Environment
  BY <1>4 DEF TxBegin, Commit, HandlerThrows, stop_listening, Reaps, Environment,
              PeerActs, ChildExits
<1>5. CASE \/ \E S \in SUBSET Ids : Wait(S)
           \/ \E i \in Ids : BeginHandler(i)
           \/ \E status \in Statuses : update_listening_status(status)
           \/ \E flag \in Flags : Consumes(flag)
  BY <1>5 DEF Wait, BeginHandler, update_listening_status, Consumes, Undefined
<1>6. CASE Unknown \/ UNCHANGED vars
  BY <1>6 DEF Unknown, vars
<1> QED
  BY <1>1, <1>2, <1>3, <1>4, <1>5, <1>6 DEF Next, Handler

\* An id whose listener is gone never names another one.
THEOREM FreshIds == ASSUME ~HandlersReap PROVE Spec => IdsNeverReused
<1>1. ASSUME IInv, [Next]_vars, NEW i \in Ids, i < nextId, i \notin listeners
      PROVE  i \notin listeners'
  <2>1. nextId \in Nat /\ i \in Nat
    BY <1>1, BoundAssumption DEF IInv, TypeOK, Ids
  <2> QED
    BY <1>1, <2>1, ListenersChange
<1>2. IInv /\ [Next]_vars =>
         [\A i \in Ids : i < nextId /\ i \notin listeners => i \notin listeners']_vars
  BY <1>1
<1> QED
  BY <1>2, Invariance, PTL DEF Spec, IdsNeverReused

\* A transaction leaves either everything that it added or nothing of it.
THEOREM AtomicTransactions == ASSUME ~HandlersReap PROVE Spec => TransactionIsAtomic
<1> DEFINE Atomic == tx # "none" /\ tx' = "none" =>
                        \/ listeners' = listeners /\ tx = "open"
                        \/ /\ txIds \cap (listeners' \cup registered' \cup open') = {}
                           /\ listeners' = listeners \ txIds
<1>1. ASSUME ~HandlersReap, IInv, [Next]_vars, tx # "none", tx' = "none"
      PROVE  Commit \/ Rollback
  <2> USE <1>1
  <2>1. CASE Add \/ TxAdd \/ TxBegin
    BY <2>1 DEF Add, TxAdd, TxBegin, txVars
  <2>2. CASE HandlerReturns \/ HandlerThrows \/ stop_listening \/ Reaps \/ Environment
    BY <2>2 DEF HandlerReturns, HandlerThrows, stop_listening, Reaps, Environment,
                PeerActs, ChildExits, Undefined, txVars
  <2>3. CASE \/ \E S \in SUBSET Ids : Wait(S)
             \/ \E i \in Ids : BeginHandler(i) \/ Remove(i)
             \/ \E status \in Statuses : update_listening_status(status)
             \/ \E flag \in Flags : Consumes(flag)
    BY <2>3 DEF Wait, BeginHandler, Remove, update_listening_status, Consumes, Undefined,
                txVars
  <2>4. CASE Unknown \/ UNCHANGED vars
    BY <2>4 DEF Unknown, vars, txVars
  <2> QED
    BY <2>1, <2>2, <2>3, <2>4 DEF Next, Handler
<1>2. ASSUME Commit PROVE Atomic
  BY <1>2 DEF Commit
<1>3. ASSUME ~HandlersReap, IInv, Rollback PROVE Atomic
  <2>1. listeners' = listeners \ txIds
    BY <1>3 DEF Rollback, Destroy
  <2>2. IInv'
    BY <1>3, NextIInv DEF Next
  <2>3. registered' = listeners' /\ open' = listeners'
    BY <2>2 DEF IInv, InterestMatchesListeners, NoDescriptorLeak
  <2> QED
    BY <2>1, <2>3
<1>4. ~HandlersReap /\ IInv /\ [Next]_vars => [Atomic]_vars
  BY <1>1, <1>2, <1>3
<1> QED
  BY <1>4, Invariance, PTL DEF Spec, TransactionIsAtomic

--------------------------------------------------------------------------------
(* Pointers to entries that were erased.                                     *)

\* A rollback finds nothing of its transaction in the batch or running.
LEMMA RollbackSpares ==
    ASSUME IInv, Rollback PROVE txIds \cap (batch \cup ({running} \ {None})) = {}
<1>1. CASE running = None
  BY <1>1 DEF Rollback, CallerRuns, InHandler, Idle
<1>2. CASE running # None
  BY <1>2 DEF Rollback, InOwnTx, IInv, TxScope
<1> QED
  BY <1>1, <1>2

\* What a step may do to pointers: a remove() is the only one to make one dangle,
\* that to its own listener.
LEMMA StepDangles ==
    ASSUME IInv, [Next]_vars, NEW i \in Dangling' \ Dangling
    PROVE  running # None /\ Remove(i)
<1> USE DEF Dangling
<1>1. None \notin Ids /\ running \in Ids \cup {None} /\ batch \subseteq Ids
  BY NoneAssumption, BoundAssumption DEF IInv, TypeOK, Ids
<1>2. CASE Add \/ TxAdd
  BY <1>2 DEF Add, TxAdd, AddSucceeds, AddFails, loopVars
<1>3. CASE TxBegin \/ Commit \/ stop_listening \/ Reaps \/ Environment
  BY <1>3 DEF TxBegin, Commit, stop_listening, Reaps, Environment, PeerActs, ChildExits, loopVars
<1>4. CASE Rollback
  BY <1>4, RollbackSpares DEF Rollback, Destroy, loopVars
<1>5. ASSUME NEW j \in Ids, Remove(j) PROVE running # None /\ Remove(i)
  <2>1. i = j
    BY <1>5 DEF Remove, Destroy, loopVars
  <2>2. ASSUME running = None PROVE FALSE
    <3>1. batch = {}
      BY <1>5, <2>2 DEF Remove, CallerRuns, InHandler, Idle
    <3>2. UNCHANGED <<batch, running>>
      BY <1>5 DEF Remove, loopVars
    <3> QED
      BY <2>2, <3>1, <3>2
  <2> QED
    BY <1>5, <2>1, <2>2
<1>6. CASE \E S \in SUBSET Ids : Wait(S)
  BY <1>6 DEF Wait, Idle, Reportable, IInv, InterestMatchesListeners
<1>7. CASE \E j \in Ids : BeginHandler(j)
  BY <1>7 DEF BeginHandler, Undefined
<1>8. CASE \/ \E status \in Statuses : update_listening_status(status)
           \/ \E flag \in Flags : Consumes(flag)
  BY <1>8 DEF update_listening_status, Consumes, Undefined, loopVars
<1>9. CASE HandlerReturns
  BY <1>9 DEF HandlerReturns, Destroy, Undefined, IInv, RunningLeftBatch
<1>10. CASE HandlerThrows
  BY <1>10 DEF HandlerThrows
<1>11. CASE Unknown \/ UNCHANGED vars
  BY <1>11 DEF Unknown, vars, loopVars
<1> QED
  BY <1>2, <1>3, <1>4, <1>5, <1>6, <1>7, <1>8, <1>9, <1>10, <1>11 DEF Next, Handler

\* Nothing but remove(), called by a handler, makes a pointer dangle.
THEOREM RemoveAloneDangles == ASSUME ~HandlersReap PROVE Spec => OnlyRemoveDangles
<1>1. IInv /\ [Next]_vars =>
         [\A i \in Dangling' \ Dangling : running # None /\ Remove(i)]_vars
  BY StepDangles
<1> QED
  BY <1>1, Invariance, PTL DEF Spec, OnlyRemoveDangles

\* An erased entry is used only where a pointer to it is left.
LEMMA StepUndefined ==
    ASSUME IInv, [Next]_vars, undefined'
    PROVE  undefined \/ Dangling # {}
<1>1. CASE \E i \in Ids : BeginHandler(i)
  BY <1>1 DEF BeginHandler, Dangling
<1>2. CASE HandlerReturns \/ \E status \in Statuses : update_listening_status(status)
  BY <1>2 DEF HandlerReturns, update_listening_status, InHandler, Dangling, loopVars
<1>3. CASE \/ Add \/ TxBegin \/ TxAdd \/ Commit \/ Rollback
           \/ \E i \in Ids : Remove(i)
  BY <1>3 DEF Add, TxBegin, TxAdd, Commit, Rollback, Remove, AddSucceeds, AddFails, loopVars
<1>4. CASE stop_listening \/ Reaps \/ HandlerThrows \/ Environment
  BY <1>4 DEF stop_listening, Reaps, HandlerThrows, Environment, PeerActs, ChildExits, loopVars
<1>5. CASE \/ \E S \in SUBSET Ids : Wait(S)
           \/ \E flag \in Flags : Consumes(flag)
  BY <1>5 DEF Wait, Consumes, loopVars
<1>6. CASE Unknown \/ UNCHANGED vars
  BY <1>6 DEF Unknown, vars, loopVars
<1> QED
  BY <1>1, <1>2, <1>3, <1>4, <1>5, <1>6 DEF Next, Handler

--------------------------------------------------------------------------------
(* Refinement. *)

\* The event loop implements the abstract activity monitor, handlers that remove
\* whatever they like included.
THEOREM ImplementsActivityMonitor == ASSUME ~HandlersReap PROVE Spec => AbstractSpec
<1>1. Init => Abstract!Init
  BY DEF Init, Abstract!Init
<1>2. ASSUME IInv, [Next]_vars PROVE [Abstract!Next]_(Abstract!vars)
  <2> USE <1>2
  <2>1. nextId \in Nat /\ listeners \subseteq Ids /\ None \notin Ids /\ running \in Ids \cup {None}
    BY BoundAssumption, NoneAssumption DEF IInv, TypeOK, Ids
  <2>2. CASE Add \/ TxAdd
    <3>1. /\ nextId \in Ids /\ nextId' = nextId + 1 /\ ~undefined
          /\ listeners' \in {listeners, listeners \cup {nextId}} /\ UNCHANGED loopVars
      BY <2>1, <2>2, BoundAssumption
      DEF Add, TxAdd, AddSucceeds, AddFails, CallerRuns, InHandler, Idle, Ids
    <3>2. nextId \notin 0 .. nextId - 1 /\ 0 .. nextId' - 1 = (0 .. nextId - 1) \cup {nextId}
      BY <2>1, <3>1
    <3>3. Abstract!Admit(nextId)
      BY <3>1, <3>2 DEF Abstract!Admit, loopVars
    <3> QED
      BY <3>1, <3>3 DEF Abstract!Next
  <2>3. CASE Rollback
    <3>1. (txIds \cap listeners) \cap (batch \cup {running}) = {}
      BY <2>1, <2>3, RollbackSpares
    <3>2. Abstract!Retire(txIds \cap listeners) /\ ~undefined
      BY <2>3, <3>1
      DEF Rollback, Destroy, CallerRuns, InHandler, Idle, loopVars, Abstract!Retire
    <3> QED
      BY <2>1, <3>2 DEF Abstract!Next
  <2>4. ASSUME NEW i \in Ids, Remove(i) PROVE Abstract!Next
    <3>1. Abstract!Remove(i) /\ ~undefined
      BY <2>4 DEF Remove, Destroy, CallerRuns, InHandler, Idle, loopVars, Abstract!Remove
    <3> QED
      BY <3>1 DEF Abstract!Next
  <2>5. ASSUME NEW S \in SUBSET Ids, Wait(S) PROVE Abstract!Next
    <3>1. S \subseteq listeners
      BY <2>5 DEF Wait, Reportable, IInv, InterestMatchesListeners
    <3>2. Abstract!Report(S) /\ ~undefined
      BY <2>5, <3>1 DEF Wait, Idle, Abstract!Report
    <3> QED
      BY <3>2 DEF Abstract!Next
  <2>6. ASSUME Undefined, Dangling # {}, ~undefined PROVE Abstract!Next
    <3>1. Abstract!Break
      BY <2>6 DEF Undefined, Dangling, Abstract!Break
    <3> QED
      BY <2>6, <3>1 DEF Abstract!Next
  <2>7. ASSUME NEW i \in Ids, BeginHandler(i) PROVE Abstract!Next
    <3>1. CASE i \in listeners
      <4>1. Abstract!Serve(i) /\ ~undefined
        BY <2>7, <3>1 DEF BeginHandler, Abstract!Serve
      <4> QED
        BY <4>1 DEF Abstract!Next
    <3>2. CASE i \notin listeners
      BY <2>6, <2>7, <3>2 DEF BeginHandler, Dangling
    <3> QED
      BY <3>1, <3>2
  <2>8. CASE HandlerReturns
    <3>1. CASE stop /\ running \notin listeners
      BY <2>6, <2>8, <3>1 DEF HandlerReturns, InHandler, Dangling
    <3>2. CASE stop => running \in listeners
      <4>1. Abstract!Finish /\ ~undefined
        BY <2>8, <3>2 DEF HandlerReturns, InHandler, Destroy, Abstract!Finish
      <4> QED
        BY <4>1 DEF Abstract!Next
    <3> QED
      BY <3>1, <3>2
  <2>9. CASE HandlerThrows
    <3>1. Abstract!Finish /\ ~undefined
      BY <2>9 DEF HandlerThrows, InHandler, Abstract!Finish
    <3> QED
      BY <3>1 DEF Abstract!Next
  <2>10. CASE UNCHANGED <<nextId, listeners, batch, running, undefined>>
    BY <2>10 DEF Abstract!vars
  <2>11. ASSUME NEW status \in Statuses, update_listening_status(status)
         PROVE  [Abstract!Next]_(Abstract!vars)
    <3>1. CASE running \in listeners
      BY <2>10, <2>11, <3>1 DEF update_listening_status, loopVars
    <3>2. CASE running \notin listeners
      BY <2>6, <2>11, <3>2 DEF update_listening_status, InHandler, Dangling
    <3> QED
      BY <3>1, <3>2
  <2>12. CASE TxBegin \/ Commit \/ stop_listening \/ Reaps \/ Environment
    BY <2>10, <2>12 DEF TxBegin, Commit, stop_listening, Reaps, Environment, PeerActs,
                        ChildExits, loopVars
  <2>13. CASE Unknown \/ UNCHANGED vars \/ \E flag \in Flags : Consumes(flag)
    BY <2>10, <2>13 DEF Unknown, vars, Consumes, loopVars
  <2> QED
    BY <2>2, <2>3, <2>4, <2>5, <2>7, <2>8, <2>9, <2>11, <2>12, <2>13 DEF Next, Handler
<1> QED
  BY <1>1, <1>2, Invariance, PTL DEF Spec, AbstractSpec, Abstract!Spec
================================================================================
