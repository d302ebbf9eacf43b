--------------------------- MODULE FlatStoreProofs ---------------------------
(***************************************************************************)
(* Proofs about FlatStore, for any keys, folders and spelling of keys that *)
(* DestAssumption and NestAssumption allow, any limits, and any number of  *)
(* other clients that write and delete any key at any time.  What a        *)
(* request promises about the keys no one else touches (Good) holds for    *)
(* any number of requests at once; that no content is lost (Safe) holds    *)
(* for one at a time: flatstore.go locks nothing, and of two moves to one  *)
(* folder the rollback of one removes the copies of the other.             *)
(*                                                                         *)
(* The argument is the one flatstore.go:92-95 hints at.  Probe finds the   *)
(* destination empty while every untouched source is there, so a key is    *)
(* both only when others have touched it.  From then on each loop keeps    *)
(* every content at the source or at the destination.                      *)
(***************************************************************************)
EXTENDS FlatStore, TLAPS

\* plan and orig are arrays, and each loop walks keys of the plan.
Loops ==
  /\ plan = [m \in Movers |-> plan[m]]
  /\ orig = [m \in Movers |-> orig[m]]
  /\ \A m \in Movers :
       /\ pc[m] \in {"copy", "delete", "removing"} => todo[m] \subseteq Sources(m)
       /\ pc[m] = "probe" => todo[m] = Sources(m)
       /\ pc[m] = "moved" => todo[m] = {}

\* Distinct sources have distinct destinations; those of a folder move are
\* under its target, which holds all of the sources or none.
Planned(m) ==
  /\ \A k, l \in Sources(m) : plan[m][k] = plan[m][l] => k = l
  /\ pc[m] = "probe" /\ target[m] # Null =>
       /\ Dests(m) \subseteq Under(target[m])
       /\ Sources(m) \cap Under(target[m]) = {} \/ Sources(m) \subseteq Under(target[m])
  /\ pc[m] = "probe" /\ target[m] = Null => Sources(m) \cap Dests(m) = {}
  /\ pc[m] = "probe" => copied[m] = {}
  /\ pc[m] = "copy" => copied[m] \subseteq Dests(m)
  /\ pc[m] = "rollback" => todo[m] \subseteq Dests(m)

Apart(m) ==
  pc[m] \in {"copy", "rollback", "delete", "moved"} => Sources(m) \cap Dests(m) \subseteq touched[m]

Untouched(m) ==
  pc[m] \in {"probe", "copy", "rollback", "refused", "copyFailed"} =>
    \A k \in Sources(m) \ touched[m] : objs[k] = orig[m][k]

Copying(m) ==
  pc[m] = "copy" => \A k \in Sources(m) : plan[m][k] \notin touched[m] =>
    /\ k \in todo[m] => objs[plan[m][k]] = Null
    /\ k \notin todo[m] \union touched[m] => objs[plan[m][k]] = orig[m][k]

Deleting(m) ==
  pc[m] \in {"delete", "moved"} => \A k \in Sources(m) \ touched[m] :
    /\ objs[k] = IF k \in todo[m] THEN orig[m][k] ELSE Null
    /\ plan[m][k] \notin touched[m] => objs[plan[m][k]] = orig[m][k]

Good(m) == Planned(m) /\ Apart(m) /\ Untouched(m) /\ Copying(m) /\ Deleting(m)

IInv == TypeOK /\ Loops /\ \A m \in Movers : Good(m)

\* Key x holds content c and will, or a copy of it will, whatever m does next.
Sheltered(m, x, c) ==
  /\ objs[x] = c
  /\ pc[m] = "copy" => /\ x \notin Dests(m)
                       /\ x \in Sources(m) => /\ plan[m][x] \notin Sources(m)
                                              /\ x \in todo[m] \/ objs[plan[m][x]] = c
  /\ pc[m] = "rollback" => x \notin Dests(m)
  /\ pc[m] = "delete" => x \notin Sources(m)
  /\ pc[m] = "removing" => x \notin todo[m]

Safe(m) == \A c \in live : \E x \in Keys : Sheltered(m, x, c)

-----------------------------------------------------------------------------
(* TypeOK and Loops, for any movers.                                       *)

\* Request m goes to position at with the keys td to visit.
Step(m, at, td) ==
  /\ pc' = [pc EXCEPT ![m] = at]
  /\ todo' = [todo EXCEPT ![m] = td]

Fixed == <<target, plan, orig, started>>

LEMMA VisitIs ==
  ASSUME TypeOK, NEW m \in Movers, NEW k, NEW next, NEW td, Visit(m, k, next, td)
  PROVE  \/ todo[m] = {k} /\ Step(m, next, td)
         \/ todo[m] # {k} /\ Step(m, pc[m], todo[m] \ {k})
<1>1. pc = [pc EXCEPT ![m] = pc[m]]
  BY DEF TypeOK
<1>2. CASE todo[m] = {k}
  BY <1>2 DEF Visit, Goto, Step
<1>3. CASE todo[m] # {k}
  BY <1>1, <1>3 DEF Visit, Step
<1> QED BY <1>2, <1>3

LEMMA StepTypes ==
  ASSUME TypeOK, Loops, NEW m \in Movers, NEW at \in FlatPCs, NEW td \in SUBSET Keys,
         Step(m, at, td), UNCHANGED Fixed,
         objs' \in [Keys -> Contents \union {Null}], live' \subseteq Contents,
         copied' \in [Movers -> SUBSET Keys], touched' \in [Movers -> SUBSET Keys],
         at \in {"copy", "delete", "removing"} => td \subseteq Sources(m), at # "probe",
         at = "moved" => td = {}
  PROVE  TypeOK' /\ Loops'
<1> USE DEF Step, Fixed
<1>1. TypeOK'
  BY DEF TypeOK
<1>2. \A n \in Movers \ {m} : pc'[n] = pc[n] /\ todo'[n] = todo[n]
  BY DEF TypeOK
<1>3. pc'[m] = at /\ todo'[m] = td
  BY DEF TypeOK
<1>4. Loops'
  BY <1>2, <1>3 DEF Loops, Sources
<1> QED BY <1>1, <1>4

LEMMA PutTypes ==
  ASSUME TypeOK, NEW n, NEW k \in Keys, NEW c \in Contents \union {Null}, Put(n, k, c)
  PROVE  objs' \in [Keys -> Contents \union {Null}] /\ touched' \in [Movers -> SUBSET Keys]
BY DEF TypeOK, Put

LEMMA KeepTypes ==
  ASSUME TypeOK, Keep
  PROVE  objs' \in [Keys -> Contents \union {Null}] /\ touched' \in [Movers -> SUBSET Keys]
BY DEF TypeOK, Keep

LEMMA PlanTypes ==
  ASSUME TypeOK, Loops, NEW m \in Movers, NEW p, NEW at \in {"probe", "removing"},
         DOMAIN p \subseteq Present, p \in [DOMAIN p -> Keys], Plan(m, p, at),
         target' \in [Movers -> Folders \union {Null}], live' \subseteq Contents, UNCHANGED objs
  PROVE  TypeOK' /\ Loops'
<1>1. /\ plan'[m] = p /\ orig'[m] = [k \in DOMAIN p |-> objs[k]]
      /\ pc'[m] = at /\ todo'[m] = DOMAIN p
      /\ \A n \in Movers \ {m} : /\ plan'[n] = plan[n] /\ orig'[n] = orig[n]
                                 /\ pc'[n] = pc[n] /\ todo'[n] = todo[n]
  BY DEF TypeOK, Loops, Plan, Goto
<1>2. orig'[m] \in [DOMAIN p -> Contents] /\ DOMAIN p \subseteq Keys
  BY <1>1 DEF TypeOK, Present
<1>3. \A n \in Movers : /\ DOMAIN plan'[n] \subseteq Keys
                        /\ plan'[n] \in [DOMAIN plan'[n] -> Keys]
                        /\ orig'[n] \in [DOMAIN plan'[n] -> Contents]
  BY <1>1, <1>2 DEF TypeOK
<1>4. pc' \in [Movers -> FlatPCs]
  BY DEF Plan, Goto, TypeOK, FlatPCs, MovePCs
<1>5. /\ todo' \in [Movers -> SUBSET Keys] /\ copied' \in [Movers -> SUBSET Keys]
      /\ touched' \in [Movers -> SUBSET Keys] /\ started' \in Nat
  BY <1>2 DEF Plan, TypeOK
<1>6. TypeOK'
  BY <1>3, <1>4, <1>5 DEF TypeOK
<1>7. plan' = [n \in Movers |-> plan'[n]] /\ orig' = [n \in Movers |-> orig'[n]]
  BY DEF Plan, Loops
<1>8. Loops'
  BY <1>1, <1>7 DEF Loops, Sources
<1> QED BY <1>6, <1>8

LEMMA InitTypes == Init => TypeOK /\ Loops
<1> SUFFICES ASSUME Init PROVE TypeOK /\ Loops
  OBVIOUS
<1>1. objs \in [Keys -> Contents \union {Null}]
  BY DEF Init, Contents
<1>2. live \subseteq Contents
  BY DEF Init, Present, Contents
<1>3. TypeOK
  BY <1>1, <1>2 DEF Init, TypeOK, NoPlan, FlatPCs, EndPCs
<1>4. Loops
  BY DEF Init, Loops
<1> QED BY <1>3, <1>4

LEMMA MoveTypes ==
  ASSUME TypeOK, Loops, NEW m \in Movers, MoveStep(m) PROVE TypeOK' /\ Loops'
<1> USE DEF FlatPCs, MovePCs, EndPCs
<1>1. ASSUME NEW f \in Folders, NEW t \in Folders, MoveFolderList(m, f, t)
      PROVE  TypeOK' /\ Loops'
  <2> DEFINE p == [k \in Listed(f) |-> Dest(f, t, k)]
  <2>1. DOMAIN p \subseteq Present /\ p \in [DOMAIN p -> Keys]
    BY <1>1 DEF MoveFolderList, Listed
  <2>2. target' \in [Movers -> Folders \union {Null}] /\ live' \subseteq Contents /\ UNCHANGED objs
    BY <1>1 DEF MoveFolderList, TypeOK
  <2>3. Plan(m, p, "probe")
    BY <1>1 DEF MoveFolderList
  <2> HIDE DEF p
  <2> QED BY <2>1, <2>2, <2>3, PlanTypes
<1>2. ASSUME NEW a \in Keys, NEW b \in Keys, MoveObjectCheck(m, a, b) PROVE TypeOK' /\ Loops'
  <2> DEFINE p == [k \in {a} |-> b]
  <2>1. DOMAIN p \subseteq Present /\ p \in [DOMAIN p -> Keys]
    BY <1>2 DEF MoveObjectCheck
  <2>2. target' \in [Movers -> Folders \union {Null}] /\ live' \subseteq Contents /\ UNCHANGED objs
    BY <1>2 DEF MoveObjectCheck, TypeOK
  <2>3. Plan(m, p, "probe")
    BY <1>2 DEF MoveObjectCheck
  <2> HIDE DEF p
  <2> QED BY <2>1, <2>2, <2>3, PlanTypes
<1>3. ASSUME Probe(m) \/ ProbeError(m) PROVE TypeOK' /\ Loops'
  <2>1. PICK at \in {"refused", "copy"} : Goto(m, at)
    BY <1>3 DEF Probe, ProbeError
  <2>2. /\ pc[m] = "probe" /\ UNCHANGED Fixed /\ todo[m] \in SUBSET Keys
        /\ UNCHANGED <<objs, live, copied, todo>> /\ touched' \in [Movers -> SUBSET Keys]
    BY <1>3 DEF Probe, ProbeError, Keep, Fixed, TypeOK
  <2>3. Step(m, at, todo[m])
    BY <2>1, <2>2 DEF Step, Goto, TypeOK
  <2>4. todo[m] \subseteq Sources(m)
    BY <2>2 DEF Loops
  <2>5. /\ objs' \in [Keys -> Contents \union {Null}] /\ live' \subseteq Contents
        /\ copied' \in [Movers -> SUBSET Keys]
    BY <2>2 DEF TypeOK
  <2>6. at \in FlatPCs /\ at # "probe"
    OBVIOUS
  <2> QED BY <2>2, <2>3, <2>4, <2>5, <2>6, StepTypes
<1>4. ASSUME NEW k \in Keys, pc[m] = "copy", k \in todo[m]
      PROVE  plan[m][k] \in Keys /\ k \in Sources(m)
  BY <1>4 DEF TypeOK, Loops, Sources
<1>5. ASSUME NEW k \in Keys, CopyKey(m, k) PROVE TypeOK' /\ Loops'
  <2>1. /\ pc[m] = "copy" /\ k \in todo[m] /\ k \in Present /\ UNCHANGED Fixed /\ UNCHANGED live
        /\ Put(m, plan[m][k], objs[k]) /\ objs[k] \in Contents \union {Null}
        /\ copied' = [copied EXCEPT ![m] = @ \union {plan[m][k]}]
        /\ Visit(m, k, "delete", Sources(m))
    BY <1>5 DEF CopyKey, Fixed, TypeOK
  <2>2. /\ objs' \in [Keys -> Contents \union {Null}] /\ touched' \in [Movers -> SUBSET Keys]
        /\ live' \subseteq Contents /\ copied' \in [Movers -> SUBSET Keys]
    BY <1>4, <2>1, PutTypes DEF TypeOK
  <2>3. Sources(m) \in SUBSET Keys /\ todo[m] \in SUBSET Keys /\ todo[m] \subseteq Sources(m)
    BY <2>1 DEF TypeOK, Loops, Sources
  <2>4. \E at \in {"copy", "delete"}, td \in SUBSET Sources(m) : Step(m, at, td)
    BY <2>1, <2>3, VisitIs
  <2> QED BY <2>1, <2>2, <2>3, <2>4, StepTypes
<1>6. ASSUME NEW k \in Keys, CopyKeyError(m, k) PROVE TypeOK' /\ Loops'
  <2>1. /\ pc[m] = "copy" /\ k \in todo[m] /\ UNCHANGED Fixed /\ UNCHANGED <<live, copied>>
    BY <1>6 DEF CopyKeyError, Fixed
  <2>2. objs' \in [Keys -> Contents \union {Null}] /\ touched' \in [Movers -> SUBSET Keys]
    <3>1. Keep \/ Put(m, plan[m][k], objs[k])
      BY <1>6 DEF CopyKeyError
    <3>2. objs[k] \in Contents \union {Null} /\ plan[m][k] \in Keys
      BY <1>4, <2>1 DEF TypeOK
    <3> QED BY <3>1, <3>2, KeepTypes, PutTypes
  <2>3. live' \subseteq Contents /\ copied' \in [Movers -> SUBSET Keys]
    BY <2>1 DEF TypeOK
  <2>4. \E at \in {"rollback", "copyFailed"}, td \in SUBSET Keys : Step(m, at, td)
    BY <1>6 DEF CopyKeyError, Goto, Step, TypeOK
  <2> QED BY <2>1, <2>2, <2>3, <2>4, StepTypes
<1>7. ASSUME NEW d \in Keys, RollbackCopy(m, d) PROVE TypeOK' /\ Loops'
  <2>1. /\ pc[m] = "rollback" /\ UNCHANGED Fixed /\ UNCHANGED <<live, copied>>
        /\ Visit(m, d, "copyFailed", {})
    BY <1>7 DEF RollbackCopy, Fixed
  <2>2. /\ objs' \in [Keys -> Contents \union {Null}] /\ touched' \in [Movers -> SUBSET Keys]
    BY <1>7, KeepTypes, PutTypes DEF RollbackCopy, Erase
  <2>5. /\ live' \subseteq Contents /\ copied' \in [Movers -> SUBSET Keys] /\ todo[m] \in SUBSET Keys
    BY <2>1 DEF TypeOK
  <2>3. \E at \in {"rollback", "copyFailed"}, td \in SUBSET Keys : Step(m, at, td)
    BY <2>1, <2>5, VisitIs
  <2> QED BY <2>1, <2>2, <2>3, <2>5, StepTypes
<1>8. ASSUME NEW k \in Keys, DeleteSource(m, k) PROVE TypeOK' /\ Loops'
  <2>1. /\ pc[m] = "delete" /\ UNCHANGED Fixed /\ UNCHANGED <<live, copied>>
        /\ Visit(m, k, "moved", {})
    BY <1>8 DEF DeleteSource, Fixed
  <2>2. /\ objs' \in [Keys -> Contents \union {Null}] /\ touched' \in [Movers -> SUBSET Keys]
    BY <1>8, KeepTypes, PutTypes DEF DeleteSource, Erase
  <2>5. /\ live' \subseteq Contents /\ copied' \in [Movers -> SUBSET Keys]
    BY <2>1 DEF TypeOK
  <2>3. Sources(m) \in SUBSET Keys /\ todo[m] \subseteq Sources(m)
    BY <2>1 DEF TypeOK, Loops, Sources
  <2>4. Step(m, "moved", {}) \/ \E td \in SUBSET Sources(m) : Step(m, "delete", td)
    BY <2>1, <2>3, VisitIs
  <2> QED BY <2>1, <2>2, <2>3, <2>4, <2>5, StepTypes
<1>9. ASSUME NEW k \in Keys, DeleteSourceError(m, k) PROVE TypeOK' /\ Loops'
  <2>1. Step(m, "deleteFailed", {}) /\ UNCHANGED Fixed /\ UNCHANGED <<live, copied>>
    BY <1>9 DEF DeleteSourceError, Goto, Step, Fixed
  <2>2. /\ objs' \in [Keys -> Contents \union {Null}] /\ touched' \in [Movers -> SUBSET Keys]
    BY <1>9, KeepTypes, PutTypes DEF DeleteSourceError, Erase
  <2>5. /\ live' \subseteq Contents /\ copied' \in [Movers -> SUBSET Keys]
    BY <2>1 DEF TypeOK
  <2> QED BY <2>1, <2>2, <2>5, StepTypes
<1> QED BY <1>1, <1>2, <1>3, <1>5, <1>6, <1>7, <1>8, <1>9 DEF MoveStep

LEMMA RemoveTypes ==
  ASSUME TypeOK, Loops, NEW m \in Movers, RemoveStep(m) PROVE TypeOK' /\ Loops'
<1> USE DEF FlatPCs, MovePCs, EndPCs
<1>1. ASSUME NEW f \in Folders, DeleteFolderList(m, f) PROVE TypeOK' /\ Loops'
  <2> DEFINE p == [k \in Listed(f) |-> k]
  <2>1. DOMAIN p \subseteq Present /\ p \in [DOMAIN p -> Keys]
    BY DEF Listed, Present
  <2>2. target' \in [Movers -> Folders \union {Null}] /\ live' \subseteq Contents /\ UNCHANGED objs
    BY <1>1 DEF DeleteFolderList, TypeOK
  <2>3. Plan(m, p, "removing")
    BY <1>1 DEF DeleteFolderList
  <2> HIDE DEF p
  <2> QED BY <2>1, <2>2, <2>3, PlanTypes
<1>2. ASSUME NEW k \in Keys, DeleteFolderKey(m, k) PROVE TypeOK' /\ Loops'
  <2>1. /\ pc[m] = "removing" /\ UNCHANGED Fixed /\ UNCHANGED <<live, copied>>
        /\ Visit(m, k, "idle", {})
    BY <1>2 DEF DeleteFolderKey, Fixed
  <2>2. /\ objs' \in [Keys -> Contents \union {Null}] /\ touched' \in [Movers -> SUBSET Keys]
    BY <1>2, KeepTypes, PutTypes DEF DeleteFolderKey, Erase
  <2>5. /\ live' \subseteq Contents /\ copied' \in [Movers -> SUBSET Keys]
    BY <2>1 DEF TypeOK
  <2>3. Sources(m) \in SUBSET Keys /\ todo[m] \subseteq Sources(m)
    BY <2>1 DEF TypeOK, Loops, Sources
  <2>4. \E at \in {"removing", "idle"}, td \in SUBSET Sources(m) : Step(m, at, td)
    BY <2>1, <2>3, VisitIs
  <2> QED BY <2>1, <2>2, <2>3, <2>4, <2>5, StepTypes
<1>3. ASSUME NEW k \in Keys, DeleteFolderError(m, k) PROVE TypeOK' /\ Loops'
  <2>1. Step(m, "idle", {}) /\ UNCHANGED Fixed /\ UNCHANGED <<live, copied>>
    BY <1>3 DEF DeleteFolderError, Goto, Step, Fixed
  <2>2. /\ objs' \in [Keys -> Contents \union {Null}] /\ touched' \in [Movers -> SUBSET Keys]
    BY <1>3, KeepTypes, PutTypes DEF DeleteFolderError, Erase
  <2>5. /\ live' \subseteq Contents /\ copied' \in [Movers -> SUBSET Keys]
    BY <2>1 DEF TypeOK
  <2> QED BY <2>1, <2>2, <2>5, StepTypes
<1> QED BY <1>1, <1>2, <1>3 DEF RemoveStep

LEMMA NextTypes ==
  ASSUME TypeOK, Loops, [Next]_vars PROVE TypeOK' /\ Loops'
<1>1. CASE ClientStep
  <2>1. UNCHANGED <<pc, todo, copied>> /\ UNCHANGED Fixed
    BY <1>1 DEF ClientStep, ClientWrite, ClientDelete, Fixed
  <2>2. /\ objs' \in [Keys -> Contents \union {Null}] /\ live' \subseteq Contents
        /\ touched' \in [Movers -> SUBSET Keys]
    <3>1. ASSUME NEW k \in Keys, NEW c \in ClientWrites, ClientWrite(k, c)
          PROVE  /\ objs' \in [Keys -> Contents \union {Null}] /\ live' \subseteq Contents
                 /\ touched' \in [Movers -> SUBSET Keys]
      BY <3>1, PutTypes DEF ClientWrite, Contents, TypeOK
    <3>2. ASSUME NEW k \in Keys, ClientDelete(k)
          PROVE  /\ objs' \in [Keys -> Contents \union {Null}] /\ live' \subseteq Contents
                 /\ touched' \in [Movers -> SUBSET Keys]
      BY <3>2, PutTypes DEF ClientDelete, Erase, TypeOK
    <3> QED BY <1>1, <3>1, <3>2 DEF ClientStep
  <2>3. TypeOK'
    BY <2>1, <2>2 DEF TypeOK, Fixed
  <2>4. Loops'
    BY <2>1 DEF Loops, Sources, Fixed
  <2> QED BY <2>3, <2>4
<1>2. CASE Crash
  <2>1. UNCHANGED <<objs, copied, touched, live>> /\ UNCHANGED Fixed
    BY <1>2 DEF Crash, Fixed
  <2>2. pc' \in [Movers -> EndPCs] /\ todo' = [n \in Movers |-> {}]
    BY <1>2 DEF Crash, EndPCs, TypeOK
  <2>3. TypeOK'
    BY <2>1, <2>2 DEF TypeOK, FlatPCs, Fixed
  <2>4. Loops'
    BY <2>1, <2>2 DEF Loops, Fixed, EndPCs
  <2> QED BY <2>3, <2>4
<1>3. CASE UNCHANGED vars
  BY <1>3 DEF vars, TypeOK, Loops, Sources
<1> QED BY <1>1, <1>2, <1>3, MoveTypes, RemoveTypes DEF Next

\* Every variable keeps its type, for any movers; in particular a move copies
\* only from and to keys of its plan (flatstore.go MoveFolderFlat).
THEOREM FlatTypeOK == Spec => []TypeOK
<1>1. Init => TypeOK /\ Loops
  BY InitTypes
<1>2. TypeOK /\ Loops /\ [Next]_vars => (TypeOK /\ Loops)'
  BY NextTypes
<1> QED BY <1>1, <1>2, PTL DEF Spec

-----------------------------------------------------------------------------
(* Good, for any movers.                                                   *)

\* What a plan is made of.
LEMMA PlanFacts ==
  ASSUME TypeOK, NEW m \in Movers
  PROVE  /\ Sources(m) \subseteq Keys /\ Dests(m) \subseteq Keys
         /\ \A k \in Sources(m) : /\ plan[m][k] \in Keys /\ plan[m][k] \in Dests(m)
                                  /\ orig[m][k] \in Contents /\ orig[m][k] # Null
         /\ \A d \in Dests(m) : \E k \in Sources(m) : d = plan[m][k]
<1>1. /\ Sources(m) \subseteq Keys
      /\ \A k \in Sources(m) : plan[m][k] \in Keys /\ orig[m][k] \in Contents
  BY DEF TypeOK, Sources
<1> QED BY <1>1, FlatAssumption DEF Dests

\* Storing or erasing one object, as the request that does it sees it.
LEMMA PutIs ==
  ASSUME TypeOK, NEW m \in Movers, NEW k \in Keys, NEW c, Put(m, k, c)
  PROVE  objs'[k] = c /\ touched'[m] = touched[m] /\ \A x \in Keys \ {k} : objs'[x] = objs[x]
BY DEF TypeOK, Put

LEMMA KeepIs ==
  ASSUME Keep, NEW m \in Movers
  PROVE  objs' = objs /\ touched'[m] = touched[m]
BY DEF Keep

LEMMA StepIs ==
  ASSUME TypeOK, NEW m \in Movers, NEW at, NEW td, Step(m, at, td), UNCHANGED Fixed
  PROVE  /\ pc'[m] = at /\ todo'[m] = td
         /\ plan'[m] = plan[m] /\ orig'[m] = orig[m] /\ target'[m] = target[m]
         /\ Sources(m)' = Sources(m) /\ Dests(m)' = Dests(m)
BY DEF TypeOK, Step, Fixed, Sources, Dests

\* How a step of anyone else looks to request m: its own state stays, and what
\* changes in the bucket is one key, which is among its touched keys if m works
\* on it.
Outside(m) ==
  /\ pc'[m] = pc[m] /\ target'[m] = target[m] /\ plan'[m] = plan[m]
  /\ todo'[m] = todo[m] /\ copied'[m] = copied[m] /\ orig'[m] = orig[m]
  /\ \/ objs' = objs /\ touched'[m] = touched[m]
     \/ \E k \in Keys : /\ \A x \in Keys \ {k} : objs'[x] = objs[x]
                        /\ touched'[m] = touched[m] \union ({k} \cap Works(m))

LEMMA OutsideKeeps ==
  ASSUME TypeOK, NEW m \in Movers, Good(m), Outside(m) PROVE Good(m)'
<1>1. Sources(m)' = Sources(m) /\ Dests(m)' = Dests(m)
  BY DEF Outside, Sources, Dests
<1>2. /\ touched[m] \subseteq touched'[m]
      /\ \A x \in Works(m) : x \notin touched'[m] => x \notin touched[m] /\ objs'[x] = objs[x]
  <2>1. Works(m) \subseteq Keys
    BY PlanFacts DEF Works
  <2> QED BY <2>1 DEF Outside
<1>3. \A k \in Sources(m) : k \in Works(m) /\ plan[m][k] \in Works(m)
  BY PlanFacts DEF Works
<1>4. Planned(m)' /\ Apart(m)'
  BY <1>1, <1>2 DEF Good, Planned, Apart, Outside
<1>5. Untouched(m)'
  BY <1>1, <1>2, <1>3 DEF Good, Untouched, Outside
<1>6. Copying(m)'
  BY <1>1, <1>2, <1>3 DEF Good, Copying, Outside
<1>7. Deleting(m)'
  BY <1>1, <1>2, <1>3 DEF Good, Deleting, Outside
<1> QED BY <1>4, <1>5, <1>6, <1>7 DEF Good

\* A request that stops where nothing is promised.
LEMMA StopKeeps ==
  ASSUME TypeOK, NEW m \in Movers, Good(m), NEW at, NEW td, Step(m, at, td), UNCHANGED Fixed,
         at \in {"idle", "deleteFailed", "removing"}
  PROVE  Good(m)'
<1>1. pc'[m] = at /\ Sources(m)' = Sources(m) /\ plan'[m] = plan[m]
  BY StepIs
<1>2. Planned(m)' /\ Apart(m)'
  BY <1>1 DEF Good, Planned, Apart
<1>3. Untouched(m)' /\ Copying(m)' /\ Deleting(m)'
  BY <1>1 DEF Untouched, Copying, Deleting
<1> QED BY <1>2, <1>3 DEF Good

\* Listing what a request is to take, which changes no object.
LEMMA PlanKeeps ==
  ASSUME TypeOK, Loops, NEW m \in Movers, NEW p, NEW at \in {"probe", "removing"}, NEW t,
         \A k, l \in DOMAIN p : p[k] = p[l] => k = l,
         at = "probe" /\ t = Null => \A k, l \in DOMAIN p : p[k] # l,
         at = "probe" /\ t # Null =>
           /\ \A k \in DOMAIN p : p[k] \in Under(t)
           /\ DOMAIN p \cap Under(t) = {} \/ DOMAIN p \subseteq Under(t),
         Plan(m, p, at), target' = [target EXCEPT ![m] = t], UNCHANGED objs
  PROVE  Good(m)'
<1>1. /\ plan'[m] = p /\ orig'[m] = [k \in DOMAIN p |-> objs[k]]
      /\ pc'[m] = at /\ target'[m] = t /\ copied'[m] = {}
  BY DEF TypeOK, Loops, Plan, Goto
<1>2. Planned(m)'
  BY <1>1 DEF Planned, Sources, Dests
<1>3. Untouched(m)'
  BY <1>1 DEF Untouched, Sources
<1>4. Apart(m)' /\ Copying(m)' /\ Deleting(m)'
  BY <1>1 DEF Apart, Copying, Deleting
<1> QED BY <1>2, <1>3, <1>4 DEF Good

\* The probe finds the destination free or the request ends.
LEMMA ProbeIs ==
  ASSUME TypeOK, Loops, NEW m \in Movers, Good(m), Probe(m) \/ ProbeError(m)
  PROVE  /\ pc[m] = "probe" /\ UNCHANGED Fixed /\ UNCHANGED <<objs, live>>
         /\ copied'[m] = {} /\ touched'[m] \cap Sources(m) = touched[m] \cap Sources(m)
         /\ \/ Step(m, "refused", Sources(m))
            \/ /\ Step(m, "copy", Sources(m)) /\ touched'[m] \subseteq Sources(m)
               /\ ~Taken(m) /\ \A k \in Sources(m) : objs[plan[m][k]] = Null
<1>1. /\ pc[m] = "probe" /\ UNCHANGED Fixed /\ UNCHANGED <<objs, live, copied>>
      /\ touched'[m] \cap Sources(m) = touched[m] \cap Sources(m)
      /\ \/ Step(m, "copy", todo[m]) /\ ~Taken(m) /\ touched'[m] \subseteq Sources(m)
         \/ Step(m, "refused", todo[m])
  BY DEF Probe, ProbeError, Keep, Goto, Step, Fixed, TypeOK
<1>2. todo[m] = Sources(m) /\ copied[m] = {}
  BY <1>1 DEF Loops, Good, Planned
<1>3. ASSUME ~Taken(m) PROVE \A k \in Sources(m) : objs[plan[m][k]] = Null
  <2>1. CASE target[m] = Null
    BY <1>3, <2>1, PlanFacts DEF Taken, Present
  <2>2. CASE target[m] # Null
    <3>1. Dests(m) \subseteq Under(target[m])
      BY <1>1, <2>2 DEF Good, Planned
    <3>2. Under(target[m]) \cap Present = {}
      BY <1>3, <2>2 DEF Taken, Listed
    <3> QED BY <3>1, <3>2, PlanFacts DEF Present
  <2> QED BY <2>1, <2>2
<1> QED BY <1>1, <1>2, <1>3

\* Free destinations are apart from the untouched sources, which are all there.
LEMMA ProbeKeeps ==
  ASSUME TypeOK, Loops, NEW m \in Movers, Good(m), Probe(m) \/ ProbeError(m) PROVE Good(m)'
<1>1. /\ pc[m] = "probe" /\ UNCHANGED Fixed /\ UNCHANGED objs
      /\ copied'[m] = {} /\ touched'[m] \cap Sources(m) = touched[m] \cap Sources(m)
      /\ \/ Step(m, "refused", Sources(m))
         \/ /\ Step(m, "copy", Sources(m))
            /\ \A k \in Sources(m) : objs[plan[m][k]] = Null
  BY ProbeIs
<1>2. \A k \in Sources(m) \ touched'[m] : objs[k] = orig[m][k]
  BY <1>1 DEF Good, Untouched
<1>3. PICK at \in {"refused", "copy"} :
        /\ Step(m, at, Sources(m))
        /\ at = "copy" => \A k \in Sources(m) : objs[plan[m][k]] = Null
  BY <1>1
<1>4. /\ pc'[m] = at /\ todo'[m] = Sources(m) /\ Sources(m)' = Sources(m)
      /\ Dests(m)' = Dests(m) /\ plan'[m] = plan[m] /\ orig'[m] = orig[m]
  BY <1>1, <1>3, StepIs
<1>5. Planned(m)' /\ Untouched(m)'
  BY <1>1, <1>2, <1>4 DEF Good, Planned, Untouched
<1>6. Apart(m)'
  <2> SUFFICES ASSUME at = "copy", NEW x \in Sources(m) \cap Dests(m) PROVE x \in touched'[m]
    BY <1>4 DEF Apart
  <2>1. objs[x] = Null
    BY <1>3, PlanFacts
  <2>2. orig[m][x] # Null
    BY PlanFacts
  <2> QED BY <1>2, <2>1, <2>2
<1>7. Copying(m)' /\ Deleting(m)'
  BY <1>1, <1>3, <1>4 DEF Copying, Deleting
<1> QED BY <1>5, <1>6, <1>7 DEF Good

\* A copy writes one destination, which is no untouched source.
LEMMA CopyKeyIs ==
  ASSUME TypeOK, Loops, NEW m \in Movers, Good(m), NEW k \in Keys, CopyKey(m, k)
  PROVE  /\ pc[m] = "copy" /\ k \in todo[m] /\ k \in Sources(m) /\ todo[m] \subseteq Sources(m)
         /\ UNCHANGED Fixed /\ UNCHANGED live /\ plan[m][k] \in Keys /\ plan[m][k] \in Dests(m)
         /\ copied'[m] = copied[m] \union {plan[m][k]} /\ touched'[m] = touched[m]
         /\ objs'[plan[m][k]] = objs[k] /\ \A x \in Keys \ {plan[m][k]} : objs'[x] = objs[x]
         /\ \A l \in Sources(m) \ {k} : plan[m][l] # plan[m][k]
         /\ \/ todo[m] = {k} /\ Step(m, "delete", Sources(m))
            \/ todo[m] # {k} /\ Step(m, "copy", todo[m] \ {k})
<1>1. /\ pc[m] = "copy" /\ k \in todo[m] /\ UNCHANGED Fixed /\ UNCHANGED live
      /\ copied'[m] = copied[m] \union {plan[m][k]} /\ Put(m, plan[m][k], objs[k])
      /\ \/ todo[m] = {k} /\ Step(m, "delete", Sources(m))
         \/ todo[m] # {k} /\ Step(m, "copy", todo[m] \ {k})
  BY VisitIs DEF CopyKey, Fixed, TypeOK
<1>2. k \in Sources(m) /\ todo[m] \subseteq Sources(m)
  BY <1>1 DEF Loops
<1>3. plan[m][k] \in Keys /\ plan[m][k] \in Dests(m)
  BY <1>2, PlanFacts
<1>4. /\ touched'[m] = touched[m] /\ objs'[plan[m][k]] = objs[k]
      /\ \A x \in Keys \ {plan[m][k]} : objs'[x] = objs[x]
  BY <1>1, <1>3, PutIs
<1>5. \A l \in Sources(m) \ {k} : plan[m][l] # plan[m][k]
  BY <1>2 DEF Good, Planned
<1> QED BY <1>1, <1>2, <1>3, <1>4, <1>5

LEMMA CopyKeyKeeps ==
  ASSUME TypeOK, Loops, NEW m \in Movers, Good(m), NEW k \in Keys, CopyKey(m, k) PROVE Good(m)'
<1> DEFINE d == plan[m][k]
<1>1. /\ pc[m] = "copy" /\ k \in todo[m] /\ k \in Sources(m) /\ todo[m] \subseteq Sources(m)
      /\ UNCHANGED Fixed /\ d \in Keys /\ d \in Dests(m)
      /\ copied'[m] = copied[m] \union {d} /\ touched'[m] = touched[m]
      /\ objs'[d] = objs[k] /\ \A x \in Keys \ {d} : objs'[x] = objs[x]
      /\ \A l \in Sources(m) \ {k} : plan[m][l] # d
      /\ \/ todo[m] = {k} /\ Step(m, "delete", Sources(m))
         \/ todo[m] # {k} /\ Step(m, "copy", todo[m] \ {k})
  BY CopyKeyIs
<1>2. /\ plan'[m] = plan[m] /\ orig'[m] = orig[m]
      /\ Sources(m)' = Sources(m) /\ Dests(m)' = Dests(m)
      /\ \/ todo[m] = {k} /\ pc'[m] = "delete" /\ todo'[m] = Sources(m)
         \/ pc'[m] = "copy" /\ todo'[m] = todo[m] \ {k}
  BY <1>1, StepIs
<1>3. \A l \in Sources(m) \ touched[m] : objs[l] = orig[m][l] /\ l # d /\ l \in Keys
  BY <1>1, PlanFacts DEF Good, Untouched, Apart
<1>4. \A l \in Sources(m) \ touched[m] : objs'[l] = orig[m][l]
  BY <1>1, <1>3
<1>5. \A l \in Sources(m) : plan[m][l] \notin touched[m] =>
        /\ l \in todo[m] \ {k} => objs'[plan[m][l]] = Null
        /\ l \notin (todo[m] \ {k}) \union touched[m] => objs'[plan[m][l]] = orig[m][l]
  <2> SUFFICES ASSUME NEW l \in Sources(m), plan[m][l] \notin touched[m]
               PROVE  /\ l \in todo[m] \ {k} => objs'[plan[m][l]] = Null
                      /\ l \notin (todo[m] \ {k}) \union touched[m] => objs'[plan[m][l]] = orig[m][l]
    OBVIOUS
  <2>1. CASE l = k
    BY <1>1, <1>3, <2>1
  <2>2. CASE l # k
    <3>1. objs'[plan[m][l]] = objs[plan[m][l]]
      BY <1>1, <2>2, PlanFacts
    <3> QED BY <1>1, <2>2, <3>1 DEF Good, Copying
  <2> QED BY <2>1, <2>2
<1>6. Planned(m)' /\ Apart(m)'
  BY <1>1, <1>2 DEF Good, Planned, Apart
<1>7. Untouched(m)' /\ Copying(m)'
  BY <1>1, <1>2, <1>4, <1>5 DEF Untouched, Copying
<1>8. Deleting(m)'
  BY <1>1, <1>2, <1>4, <1>5 DEF Deleting
<1> QED BY <1>6, <1>7, <1>8 DEF Good

\* A failed copy, and a step of the rollback, change destinations only.
LEMMA UndoKeeps ==
  ASSUME TypeOK, NEW m \in Movers, Good(m), pc[m] \in {"copy", "rollback"}, UNCHANGED Fixed,
         NEW d \in Dests(m), \A x \in Keys \ {d} : objs'[x] = objs[x], touched'[m] = touched[m],
         NEW at \in {"rollback", "copyFailed"}, NEW td, td \subseteq Dests(m), Step(m, at, td)
  PROVE  Good(m)'
<1>1. /\ pc'[m] = at /\ todo'[m] = td /\ plan'[m] = plan[m] /\ orig'[m] = orig[m]
      /\ Sources(m)' = Sources(m) /\ Dests(m)' = Dests(m)
  BY StepIs
<1>2. \A l \in Sources(m) \ touched[m] : objs'[l] = orig[m][l]
  BY PlanFacts DEF Good, Untouched, Apart
<1>3. Planned(m)' /\ Apart(m)'
  BY <1>1 DEF Good, Planned, Apart
<1>4. Untouched(m)' /\ Copying(m)' /\ Deleting(m)'
  BY <1>1, <1>2 DEF Untouched, Copying, Deleting
<1> QED BY <1>3, <1>4 DEF Good

LEMMA CopyKeyErrorIs ==
  ASSUME TypeOK, Loops, NEW m \in Movers, Good(m), NEW k \in Keys, CopyKeyError(m, k)
  PROVE  /\ pc[m] = "copy" /\ k \in Sources(m) /\ UNCHANGED Fixed /\ UNCHANGED live
         /\ plan[m][k] \in Dests(m) /\ touched'[m] = touched[m]
         /\ \A x \in Keys \ {plan[m][k]} : objs'[x] = objs[x]
         /\ \E at \in {"rollback", "copyFailed"}, td \in SUBSET Dests(m) : Step(m, at, td)
<1>1. /\ pc[m] = "copy" /\ k \in todo[m] /\ UNCHANGED Fixed /\ UNCHANGED live
      /\ Keep \/ Put(m, plan[m][k], objs[k])
      /\ Step(m, "rollback", copied[m]) \/ Step(m, "copyFailed", {})
  BY DEF CopyKeyError, Goto, Step, Fixed
<1>2. k \in Sources(m) /\ copied[m] \subseteq Dests(m)
  BY <1>1 DEF Loops, Good, Planned
<1>3. plan[m][k] \in Dests(m) /\ plan[m][k] \in Keys
  BY <1>2, PlanFacts
<1>4. touched'[m] = touched[m] /\ \A x \in Keys \ {plan[m][k]} : objs'[x] = objs[x]
  BY <1>1, <1>3, PutIs, KeepIs
<1> QED BY <1>1, <1>2, <1>3, <1>4

LEMMA RollbackCopyIs ==
  ASSUME TypeOK, NEW m \in Movers, Good(m), NEW d \in Keys, RollbackCopy(m, d)
  PROVE  /\ pc[m] = "rollback" /\ UNCHANGED Fixed /\ UNCHANGED live
         /\ d \in Dests(m) /\ touched'[m] = touched[m]
         /\ \A x \in Keys \ {d} : objs'[x] = objs[x]
         /\ \E at \in {"rollback", "copyFailed"}, td \in SUBSET Dests(m) : Step(m, at, td)
<1>1. /\ pc[m] = "rollback" /\ d \in todo[m] /\ UNCHANGED Fixed /\ UNCHANGED live
      /\ Keep \/ Put(m, d, Null)
      /\ Step(m, "copyFailed", {}) \/ Step(m, "rollback", todo[m] \ {d})
  BY VisitIs DEF RollbackCopy, Erase, Fixed
<1>2. todo[m] \subseteq Dests(m)
  BY <1>1 DEF Good, Planned
<1>3. touched'[m] = touched[m] /\ \A x \in Keys \ {d} : objs'[x] = objs[x]
  BY <1>1, PutIs, KeepIs
<1> QED BY <1>1, <1>2, <1>3

\* Deleting a source leaves every other key as it is.
LEMMA DeleteIs ==
  ASSUME TypeOK, Loops, NEW m \in Movers, NEW k \in Keys,
         DeleteSource(m, k) \/ DeleteSourceError(m, k)
  PROVE  /\ pc[m] = "delete" /\ k \in todo[m] /\ k \in Sources(m) /\ UNCHANGED Fixed
         /\ UNCHANGED live /\ touched'[m] = touched[m] /\ \A x \in Keys \ {k} : objs'[x] = objs[x]
         /\ \/ Step(m, "deleteFailed", {})
            \/ /\ objs'[k] = Null
               /\ \/ todo[m] = {k} /\ Step(m, "moved", {})
                  \/ Step(m, "delete", todo[m] \ {k})
<1>1. /\ pc[m] = "delete" /\ k \in todo[m] /\ UNCHANGED Fixed /\ UNCHANGED live
      /\ \/ (Keep \/ Put(m, k, Null)) /\ Step(m, "deleteFailed", {})
         \/ /\ Put(m, k, Null)
            /\ \/ todo[m] = {k} /\ Step(m, "moved", {})
               \/ Step(m, "delete", todo[m] \ {k})
  BY VisitIs DEF DeleteSource, DeleteSourceError, Erase, Goto, Step, Fixed
<1>2. k \in Sources(m)
  BY <1>1 DEF Loops
<1>3. touched'[m] = touched[m] /\ \A x \in Keys \ {k} : objs'[x] = objs[x]
  BY <1>1, PutIs, KeepIs
<1>4. Put(m, k, Null) => objs'[k] = Null
  BY PutIs
<1> QED BY <1>1, <1>2, <1>3, <1>4

LEMMA DeleteKeeps ==
  ASSUME TypeOK, Loops, NEW m \in Movers, Good(m), NEW k \in Keys,
         DeleteSource(m, k) \/ DeleteSourceError(m, k)
  PROVE  Good(m)'
<1>1. /\ pc[m] = "delete" /\ k \in todo[m] /\ k \in Sources(m) /\ UNCHANGED Fixed
      /\ touched'[m] = touched[m] /\ \A x \in Keys \ {k} : objs'[x] = objs[x]
      /\ \/ Step(m, "deleteFailed", {})
         \/ /\ objs'[k] = Null
            /\ \/ todo[m] = {k} /\ Step(m, "moved", {})
               \/ Step(m, "delete", todo[m] \ {k})
  BY DeleteIs
<1>2. CASE Step(m, "deleteFailed", {})
  BY <1>1, <1>2, StopKeeps
<1>3. CASE /\ objs'[k] = Null
           /\ \/ todo[m] = {k} /\ Step(m, "moved", {})
              \/ Step(m, "delete", todo[m] \ {k})
  <2>1. PICK at \in {"delete", "moved"} : Step(m, at, todo[m] \ {k})
    BY <1>3
  <2>2. /\ pc'[m] = at /\ todo'[m] = todo[m] \ {k} /\ plan'[m] = plan[m] /\ orig'[m] = orig[m]
        /\ Sources(m)' = Sources(m) /\ Dests(m)' = Dests(m)
    BY <1>1, <2>1, StepIs
  <2>3. \A l \in Sources(m) \ touched[m] :
          /\ objs'[l] = IF l \in todo[m] \ {k} THEN orig[m][l] ELSE Null
          /\ plan[m][l] \notin touched[m] => objs'[plan[m][l]] = orig[m][l]
    <3> SUFFICES ASSUME NEW l \in Sources(m) \ touched[m]
                 PROVE  /\ objs'[l] = IF l \in todo[m] \ {k} THEN orig[m][l] ELSE Null
                        /\ plan[m][l] \notin touched[m] => objs'[plan[m][l]] = orig[m][l]
      OBVIOUS
    <3>1. /\ objs[l] = IF l \in todo[m] THEN orig[m][l] ELSE Null
          /\ plan[m][l] \notin touched[m] => objs[plan[m][l]] = orig[m][l]
      BY <1>1 DEF Good, Deleting
    <3>2. objs'[l] = IF l \in todo[m] \ {k} THEN orig[m][l] ELSE Null
      BY <1>1, <1>3, <3>1, PlanFacts
    <3>3. plan[m][l] \notin touched[m] => plan[m][l] # k /\ plan[m][l] \in Keys
      BY <1>1, PlanFacts DEF Good, Apart
    <3> QED BY <1>1, <3>1, <3>2, <3>3
  <2>4. Planned(m)' /\ Apart(m)'
    BY <1>1, <2>2 DEF Good, Planned, Apart
  <2>5. Untouched(m)' /\ Copying(m)' /\ Deleting(m)'
    BY <1>1, <2>2, <2>3 DEF Untouched, Copying, Deleting
  <2> QED BY <2>4, <2>5 DEF Good
<1> QED BY <1>1, <1>2, <1>3

LEMMA MoveListKeeps ==
  ASSUME TypeOK, Loops, NEW m \in Movers, NEW f \in Folders, NEW t \in Folders,
         MoveFolderList(m, f, t)
  PROVE  Good(m)'
<1> DEFINE p == [k \in Listed(f) |-> Dest(f, t, k)]
<1>1. Listed(f) \subseteq Under(f) /\ t # Null
  BY FlatAssumption DEF Listed
<1>2. \A k, l \in DOMAIN p : p[k] = p[l] => k = l
  BY <1>1, DestAssumption
<1>3. \A k \in DOMAIN p : p[k] \in Under(t)
  BY <1>1, DestAssumption DEF MoveFolderList
<1>4. DOMAIN p \cap Under(t) = {} \/ DOMAIN p \subseteq Under(t)
  BY <1>1, NestAssumption DEF MoveFolderList
<1>5. Plan(m, p, "probe") /\ target' = [target EXCEPT ![m] = t] /\ UNCHANGED objs
  BY DEF MoveFolderList
<1> HIDE DEF p
<1> QED BY <1>1, <1>2, <1>3, <1>4, <1>5, PlanKeeps

LEMMA MoveObjectCheckKeeps ==
  ASSUME TypeOK, Loops, NEW m \in Movers, NEW a \in Keys, NEW b \in Keys, MoveObjectCheck(m, a, b)
  PROVE  Good(m)'
<1> DEFINE p == [k \in {a} |-> b]
<1>1. (\A k, l \in DOMAIN p : p[k] = p[l] => k = l) /\ \A k, l \in DOMAIN p : p[k] # l
  BY DEF MoveObjectCheck
<1>2. Plan(m, p, "probe") /\ target' = [target EXCEPT ![m] = Null] /\ UNCHANGED objs
  BY DEF MoveObjectCheck
<1> HIDE DEF p
<1> QED BY <1>1, <1>2, PlanKeeps

LEMMA DeleteFolderListKeeps ==
  ASSUME TypeOK, Loops, NEW m \in Movers, NEW f \in Folders, DeleteFolderList(m, f) PROVE Good(m)'
<1> DEFINE p == [k \in Listed(f) |-> k]
<1>1. \A k, l \in DOMAIN p : p[k] = p[l] => k = l
  OBVIOUS
<1>2. Plan(m, p, "removing") /\ target' = [target EXCEPT ![m] = Null] /\ UNCHANGED objs
  BY DEF DeleteFolderList
<1> HIDE DEF p
<1> QED BY <1>1, <1>2, PlanKeeps

\* A folder delete erases keys it has listed.
LEMMA DeleteFolderIs ==
  ASSUME TypeOK, NEW m \in Movers, NEW k \in Keys,
         DeleteFolderKey(m, k) \/ DeleteFolderError(m, k)
  PROVE  /\ pc[m] = "removing" /\ k \in todo[m] /\ UNCHANGED Fixed /\ UNCHANGED live
         /\ \A x \in Keys \ {k} : objs'[x] = objs[x]
         /\ Step(m, "idle", {}) \/ Step(m, "removing", todo[m] \ {k})
<1>1. /\ pc[m] = "removing" /\ k \in todo[m] /\ UNCHANGED Fixed /\ UNCHANGED live
      /\ Keep \/ Put(m, k, Null)
      /\ Step(m, "idle", {}) \/ Step(m, "removing", todo[m] \ {k})
  BY VisitIs DEF DeleteFolderKey, DeleteFolderError, Erase, Goto, Step, Fixed
<1> QED BY <1>1, PutIs, KeepIs

LEMMA OwnStepKeeps ==
  ASSUME TypeOK, Loops, NEW m \in Movers, Good(m), MoveStep(m) \/ RemoveStep(m) PROVE Good(m)'
<1>1. ASSUME NEW k \in Keys, CopyKeyError(m, k) PROVE Good(m)'
  BY <1>1, CopyKeyErrorIs, UndoKeeps
<1>2. ASSUME NEW d \in Keys, RollbackCopy(m, d) PROVE Good(m)'
  BY <1>2, RollbackCopyIs, UndoKeeps
<1>3. ASSUME NEW k \in Keys, DeleteFolderKey(m, k) \/ DeleteFolderError(m, k) PROVE Good(m)'
  BY <1>3, DeleteFolderIs, StopKeeps
<1>4. CASE MoveStep(m)
  BY <1>1, <1>2, <1>4, MoveListKeeps, MoveObjectCheckKeeps, ProbeKeeps, CopyKeyKeeps, DeleteKeeps
     DEF MoveStep
<1>5. CASE RemoveStep(m)
  BY <1>3, <1>5, DeleteFolderListKeeps DEF RemoveStep
<1> QED BY <1>4, <1>5

\* Other requests, and other clients, are outside.
LEMMA PutOutside ==
  ASSUME TypeOK, NEW m \in Movers, NEW n, n # m, NEW k \in Keys, NEW c, Put(n, k, c) \/ Keep
  PROVE  \/ objs' = objs /\ touched'[m] = touched[m]
         \/ \E x \in Keys : /\ \A y \in Keys \ {x} : objs'[y] = objs[y]
                            /\ touched'[m] = touched[m] \union ({x} \cap Works(m))
BY DEF TypeOK, Put, Keep

\* What a step of request n leaves alone of any other request.
LEMMA StepOutside ==
  ASSUME TypeOK, Loops, NEW m \in Movers, NEW n \in Movers, n # m, NEW at, NEW td,
         Step(n, at, td), UNCHANGED Fixed, copied'[m] = copied[m]
  PROVE  /\ pc'[m] = pc[m] /\ target'[m] = target[m] /\ plan'[m] = plan[m]
         /\ todo'[m] = todo[m] /\ copied'[m] = copied[m] /\ orig'[m] = orig[m]
BY DEF TypeOK, Step, Fixed

LEMMA OtherMoveOutside ==
  ASSUME TypeOK, Loops, NEW m \in Movers, NEW n \in Movers, n # m, Good(n),
         MoveStep(n) \/ RemoveStep(n)
  PROVE  Outside(m)
<1>1. ASSUME NEW p, NEW at, NEW t, Plan(n, p, at), target' = [target EXCEPT ![n] = t],
             UNCHANGED objs
      PROVE  Outside(m)
  BY <1>1 DEF Plan, Goto, TypeOK, Loops, Outside
<1>2. ASSUME (\E f, t \in Folders : MoveFolderList(n, f, t))
             \/ (\E a, b \in Keys : MoveObjectCheck(n, a, b))
             \/ (\E f \in Folders : DeleteFolderList(n, f))
      PROVE  Outside(m)
  BY <1>1, <1>2 DEF MoveFolderList, MoveObjectCheck, DeleteFolderList
<1>3. ASSUME Probe(n) \/ ProbeError(n) PROVE Outside(m)
  BY <1>3 DEF Probe, ProbeError, Keep, Goto, TypeOK, Outside
<1>4. ASSUME NEW k \in Keys, CopyKey(n, k) PROVE Outside(m)
  <2>1. plan[n][k] \in Keys /\ UNCHANGED Fixed /\ \E at, td : Step(n, at, td)
    BY <1>4, CopyKeyIs
  <2>2. Put(n, plan[n][k], objs[k]) /\ copied'[m] = copied[m]
    BY <1>4 DEF CopyKey, TypeOK
  <2>3. PICK at, td : Step(n, at, td)
    BY <2>1
  <2>4. /\ pc'[m] = pc[m] /\ target'[m] = target[m] /\ plan'[m] = plan[m]
        /\ todo'[m] = todo[m] /\ copied'[m] = copied[m] /\ orig'[m] = orig[m]
    BY <2>1, <2>2, <2>3, StepOutside
  <2>5. \/ objs' = objs /\ touched'[m] = touched[m]
        \/ \E x \in Keys : /\ \A y \in Keys \ {x} : objs'[y] = objs[y]
                           /\ touched'[m] = touched[m] \union ({x} \cap Works(m))
    BY <2>1, <2>2, PutOutside
  <2> QED BY <2>4, <2>5 DEF Outside
<1>5. ASSUME NEW k \in Keys, CopyKeyError(n, k) PROVE Outside(m)
  <2>1. plan[n][k] \in Keys /\ UNCHANGED Fixed /\ \E at, td : Step(n, at, td)
    BY <1>5, CopyKeyErrorIs, PlanFacts
  <2>2. (Put(n, plan[n][k], objs[k]) \/ Keep) /\ copied'[m] = copied[m]
    BY <1>5 DEF CopyKeyError
  <2>3. PICK at, td : Step(n, at, td)
    BY <2>1
  <2>4. /\ pc'[m] = pc[m] /\ target'[m] = target[m] /\ plan'[m] = plan[m]
        /\ todo'[m] = todo[m] /\ copied'[m] = copied[m] /\ orig'[m] = orig[m]
    BY <2>1, <2>2, <2>3, StepOutside
  <2>5. \/ objs' = objs /\ touched'[m] = touched[m]
        \/ \E x \in Keys : /\ \A y \in Keys \ {x} : objs'[y] = objs[y]
                           /\ touched'[m] = touched[m] \union ({x} \cap Works(m))
    BY <2>1, <2>2, PutOutside
  <2> QED BY <2>4, <2>5 DEF Outside
<1>6. ASSUME NEW k \in Keys,
             \/ RollbackCopy(n, k) \/ DeleteSource(n, k) \/ DeleteSourceError(n, k)
             \/ DeleteFolderKey(n, k) \/ DeleteFolderError(n, k)
      PROVE  Outside(m)
  <2>1. UNCHANGED Fixed /\ \E at, td : Step(n, at, td)
    BY <1>6, RollbackCopyIs, DeleteIs, DeleteFolderIs
  <2>2. (Put(n, k, Null) \/ Keep) /\ copied'[m] = copied[m]
    BY <1>6 DEF RollbackCopy, DeleteSource, DeleteSourceError, DeleteFolderKey,
                DeleteFolderError, Erase
  <2>3. PICK at, td : Step(n, at, td)
    BY <2>1
  <2>4. /\ pc'[m] = pc[m] /\ target'[m] = target[m] /\ plan'[m] = plan[m]
        /\ todo'[m] = todo[m] /\ copied'[m] = copied[m] /\ orig'[m] = orig[m]
    BY <2>1, <2>2, <2>3, StepOutside
  <2>5. \/ objs' = objs /\ touched'[m] = touched[m]
        \/ \E x \in Keys : /\ \A y \in Keys \ {x} : objs'[y] = objs[y]
                           /\ touched'[m] = touched[m] \union ({x} \cap Works(m))
    BY <2>2, PutOutside
  <2> QED BY <2>4, <2>5 DEF Outside<1> QED BY <1>2, <1>3, <1>4, <1>5, <1>6 DEF MoveStep, RemoveStep

LEMMA ClientOutside ==
  ASSUME TypeOK, NEW m \in Movers, ClientStep PROVE Outside(m)
<1>1. PICK k \in Keys : \/ \E c \in ClientWrites : ClientWrite(k, c)
                        \/ ClientDelete(k)
  BY DEF ClientStep
<1>2. \E c : Put(Null, k, c)
  BY <1>1 DEF ClientWrite, ClientDelete, Erase
<1>3. Null # m
  BY FlatAssumption
<1>4. /\ pc' = pc /\ target' = target /\ plan' = plan
      /\ todo' = todo /\ copied' = copied /\ orig' = orig
  BY <1>1 DEF ClientWrite, ClientDelete
<1> QED BY <1>2, <1>3, <1>4, PutOutside DEF Outside

\* A crash leaves the objects where they are; an ended request stays ended.
LEMMA CrashKeeps ==
  ASSUME TypeOK, Loops, NEW m \in Movers, Good(m), Crash PROVE Good(m)'
<1>1. /\ pc'[m] = IF pc[m] \in EndPCs THEN pc[m] ELSE "crashed"
      /\ todo'[m] = {} /\ UNCHANGED <<objs, target, plan, copied, orig, touched>>
  BY DEF Crash
<1>2. Sources(m)' = Sources(m) /\ Dests(m)' = Dests(m)
  BY <1>1 DEF Sources, Dests
<1>3. Planned(m)' /\ Apart(m)' /\ Untouched(m)' /\ Copying(m)'
  BY <1>1, <1>2 DEF Good, Planned, Apart, Untouched, Copying, EndPCs
<1>4. Deleting(m)'
  BY <1>1, <1>2 DEF Good, Deleting, Loops, EndPCs
<1> QED BY <1>3, <1>4 DEF Good

LEMMA NextGood ==
  ASSUME IInv, [Next]_vars, NEW m \in Movers PROVE Good(m)'
<1>1. TypeOK /\ Loops /\ Good(m)
  BY DEF IInv
<1>2. CASE \E n \in Movers : MoveStep(n) \/ RemoveStep(n)
  <2>1. PICK n \in Movers : MoveStep(n) \/ RemoveStep(n)
    BY <1>2
  <2>2. CASE n = m
    BY <1>1, <2>1, <2>2, OwnStepKeeps
  <2>3. CASE n # m
    <3>1. Good(n)
      BY DEF IInv
    <3>2. Outside(m)
      BY <1>1, <2>1, <2>3, <3>1, OtherMoveOutside
    <3> QED BY <1>1, <3>2, OutsideKeeps
  <2> QED BY <2>2, <2>3
<1>3. CASE ClientStep
  BY <1>1, <1>3, ClientOutside, OutsideKeeps
<1>4. CASE UNCHANGED vars
  BY <1>1, <1>4, OutsideKeeps DEF vars, Outside
<1>5. CASE Crash
  BY <1>1, <1>5, CrashKeeps
<1> QED BY <1>2, <1>3, <1>4, <1>5 DEF Next

LEMMA InitGood == ASSUME Init, NEW m \in Movers PROVE Good(m)
<1>1. pc[m] = "idle" /\ Sources(m) = {}
  BY DEF Init, Sources, NoPlan
<1> QED BY <1>1 DEF Good, Planned, Apart, Untouched, Copying, Deleting

-----------------------------------------------------------------------------
(* Theorems about any number of requests at once.                          *)

\* IInv is inductive: wherever a move stands, every listed content no one else
\* touched is at its source, at its destination or at both
\* (flatstore.go:92-95).
THEOREM FlatInvariant == Spec => []IInv
<1>1. Init => IInv
  BY InitTypes, InitGood DEF IInv
<1>2. IInv /\ [Next]_vars => IInv'
  <2> SUFFICES ASSUME IInv, [Next]_vars PROVE IInv'
    OBVIOUS
  <2>1. TypeOK' /\ Loops'
    BY NextTypes DEF IInv
  <2>2. \A m \in Movers : Good(m)'
    BY NextGood
  <2> QED BY <2>1, <2>2 DEF IInv
<1> QED BY <1>1, <1>2, PTL DEF Spec

\* Until every copy is made, and after a failed one, the source folder is as it
\* was listed ("the source is untouched", flatstore.go:94), but for the keys
\* others change themselves.
THEOREM SourceStaysUntouched == Spec => []SourceUntouched
<1>1. IInv => SourceUntouched
  BY DEF IInv, Good, Untouched, SourceUntouched
<1> QED BY <1>1, FlatInvariant, PTL

\* A move that reports success has put every listed content at its destination
\* and left nothing at the source (flatstore.go MoveFolderFlat, MoveObjectFlat),
\* but for the keys others change meanwhile.
THEOREM MovedMeansMoved == Spec => []MovedIsMoved
<1>1. IInv => MovedIsMoved
  <2> SUFFICES ASSUME IInv, NEW m \in Movers, pc[m] = "moved", NEW k \in Sources(m) \ touched[m]
               PROVE  /\ objs[k] = Null
                      /\ plan[m][k] \notin touched[m] => objs[plan[m][k]] = orig[m][k]
    BY DEF MovedIsMoved
  <2>1. todo[m] = {} /\ Deleting(m)
    BY DEF IInv, Loops, Good
  <2> QED BY <2>1 DEF Deleting
<1> QED BY <1>1, FlatInvariant, PTL

\* No copy of a move, not even one that reports an error, replaces an object
\* that was there when the move probed its destination; the race that remains,
\* with a write after the probe, is the one the code leaves open
\* (flatstore.go:110-126).
THEOREM MoveClobbersOnlyLateWrites == Spec => NoClobber
<1> DEFINE Copies == \A m \in Movers, k \in Keys :
                       CopyKey(m, k) \/ CopyKeyError(m, k) =>
                         \/ objs[plan[m][k]] \in {Null, objs'[plan[m][k]]}
                         \/ plan[m][k] \in touched[m]
<1>1. IInv => Copies
  <2> SUFFICES ASSUME IInv, NEW m \in Movers, NEW k \in Keys, CopyKey(m, k) \/ CopyKeyError(m, k),
                      plan[m][k] \notin touched[m]
               PROVE  objs[plan[m][k]] = Null
    OBVIOUS
  <2>1. pc[m] = "copy" /\ k \in todo[m]
    BY DEF CopyKey, CopyKeyError
  <2>2. k \in Sources(m)
    BY <2>1 DEF IInv, Loops
  <2> QED BY <2>1, <2>2 DEF IInv, Good, Copying
<1>2. IInv /\ [Next]_vars => [Copies]_vars
  BY <1>1
<1>3. Spec => []IInv
  BY FlatInvariant
<1>4. Spec => [][Copies]_vars
  BY <1>2, <1>3, PTL DEF Spec
<1> QED BY <1>4 DEF NoClobber

-----------------------------------------------------------------------------
(* Safe, for one request at a time.                                        *)

LEMMA LiveNotNull == ASSUME TypeOK PROVE \A c \in live : c # Null
BY FlatAssumption DEF TypeOK

\* Outside the loops any key will do.
LEMMA IdleSafe ==
  ASSUME NEW m, pc'[m] \notin {"copy", "rollback", "delete", "removing"},
         \A c \in live' : \E x \in Keys : objs'[x] = c
  PROVE  Safe(m)'
BY DEF Safe, Sheltered

\* No source whose content is there has another source for its destination.
LEMMA ProbeSafe ==
  ASSUME TypeOK, Loops, NEW m \in Movers, Good(m), Safe(m), Probe(m) \/ ProbeError(m)
  PROVE  Safe(m)'
<1>1. /\ pc[m] = "probe" /\ UNCHANGED Fixed /\ UNCHANGED <<objs, live>>
      /\ \/ Step(m, "refused", Sources(m))
         \/ /\ Step(m, "copy", Sources(m)) /\ ~Taken(m)
            /\ \A k \in Sources(m) : objs[plan[m][k]] = Null
  BY ProbeIs
<1>2. \A c \in live : \E x \in Keys : objs[x] = c
  BY DEF Safe, Sheltered
<1>3. CASE Step(m, "refused", Sources(m))
  <2>1. pc'[m] = "refused"
    BY <1>1, <1>3, StepIs
  <2> QED BY <1>1, <1>2, <2>1, IdleSafe
<1>4. CASE /\ Step(m, "copy", Sources(m)) /\ ~Taken(m)
           /\ \A k \in Sources(m) : objs[plan[m][k]] = Null
  <2>1. /\ pc'[m] = "copy" /\ todo'[m] = Sources(m) /\ plan'[m] = plan[m]
        /\ Sources(m)' = Sources(m) /\ Dests(m)' = Dests(m)
    BY <1>1, <1>4, StepIs
  <2> SUFFICES ASSUME NEW c \in live PROVE \E x \in Keys : Sheltered(m, x, c)'
    BY <1>1 DEF Safe
  <2>2. PICK x \in Keys : objs[x] = c
    BY <1>2
  <2>3. c # Null
    BY LiveNotNull
  <2>4. x \notin Dests(m)
    BY <1>4, <2>2, <2>3, PlanFacts
  <2>5. x \in Sources(m) => plan[m][x] \notin Sources(m)
    <3> SUFFICES ASSUME x \in Sources(m), plan[m][x] \in Sources(m) PROVE FALSE
      OBVIOUS
    <3>1. target[m] # Null /\ plan[m][x] \in Dests(m)
      BY <1>1, PlanFacts DEF Good, Planned
    <3>2. Sources(m) \subseteq Under(target[m])
      BY <1>1, <3>1 DEF Good, Planned
    <3>3. x \notin Present
      BY <1>4, <3>1, <3>2 DEF Taken, Listed
    <3> QED BY <2>2, <2>3, <3>3 DEF Present
  <2>6. Sheltered(m, x, c)'
    BY <1>1, <2>1, <2>2, <2>4, <2>5 DEF Sheltered
  <2> QED BY <2>6
<1> QED BY <1>1, <1>3, <1>4

\* The last copy made, every sheltered content is at a key that is no source.
LEMMA CopyKeySafe ==
  ASSUME TypeOK, Loops, NEW m \in Movers, Good(m), Safe(m), NEW k \in Keys, CopyKey(m, k)
  PROVE  Safe(m)'
<1> DEFINE d == plan[m][k]
<1>1. /\ pc[m] = "copy" /\ k \in Sources(m) /\ todo[m] \subseteq Sources(m)
      /\ UNCHANGED Fixed /\ UNCHANGED live /\ d \in Keys /\ d \in Dests(m)
      /\ objs'[d] = objs[k] /\ \A x \in Keys \ {d} : objs'[x] = objs[x]
      /\ \A l \in Sources(m) \ {k} : plan[m][l] # d
      /\ \/ todo[m] = {k} /\ Step(m, "delete", Sources(m))
         \/ todo[m] # {k} /\ Step(m, "copy", todo[m] \ {k})
  BY CopyKeyIs
<1>2. /\ plan'[m] = plan[m] /\ Sources(m)' = Sources(m) /\ Dests(m)' = Dests(m)
      /\ \/ todo[m] = {k} /\ pc'[m] = "delete"
         \/ pc'[m] = "copy" /\ todo'[m] = todo[m] \ {k}
  BY <1>1, StepIs
<1> SUFFICES ASSUME NEW c \in live PROVE \E x \in Keys : Sheltered(m, x, c)'
  BY <1>1 DEF Safe
<1>3. PICK x \in Keys :
        /\ objs[x] = c /\ x \notin Dests(m)
        /\ x \in Sources(m) => /\ plan[m][x] \notin Sources(m)
                               /\ x \in todo[m] \/ objs[plan[m][x]] = c
  BY <1>1 DEF Safe, Sheltered
<1>4. objs'[x] = c
  BY <1>1, <1>3
<1>5. x \in Sources(m) => x \in todo[m] \ {k} \/ objs'[plan[m][x]] = c
  <2>1. CASE x = k
    BY <1>1, <1>3, <2>1
  <2>2. CASE x # k
    BY <1>1, <1>3, <2>2, PlanFacts
  <2> QED BY <2>1, <2>2
<1>6. CASE pc'[m] = "copy" /\ todo'[m] = todo[m] \ {k}
  <2>1. Sheltered(m, x, c)'
    BY <1>2, <1>3, <1>4, <1>5, <1>6 DEF Sheltered
  <2> QED BY <2>1
<1>7. CASE todo[m] = {k} /\ pc'[m] = "delete"
  <2>1. CASE x \notin Sources(m)
    <3>1. Sheltered(m, x, c)'
      BY <1>2, <1>4, <1>7, <2>1 DEF Sheltered
    <3> QED BY <3>1
  <2>2. CASE x \in Sources(m)
    <3>1. objs'[plan[m][x]] = c /\ plan[m][x] \notin Sources(m) /\ plan[m][x] \in Keys
      BY <1>3, <1>5, <1>7, <2>2, PlanFacts
    <3>2. PICK y \in Keys : objs'[y] = c /\ y \notin Sources(m)
      BY <3>1
    <3>3. Sheltered(m, y, c)'
      BY <1>2, <1>7, <3>2 DEF Sheltered
    <3> QED BY <3>3
  <2> QED BY <2>1, <2>2
<1> QED BY <1>2, <1>6, <1>7

\* A failed copy and a rollback change destinations, where nothing shelters.
LEMMA UndoSafe ==
  ASSUME TypeOK, NEW m \in Movers, Safe(m), pc[m] \in {"copy", "rollback"}, UNCHANGED Fixed,
         UNCHANGED live, NEW d \in Dests(m), \A x \in Keys \ {d} : objs'[x] = objs[x],
         NEW at \in {"rollback", "copyFailed"}, NEW td, Step(m, at, td)
  PROVE  Safe(m)'
<1>1. pc'[m] = at /\ Dests(m)' = Dests(m)
  BY StepIs
<1> SUFFICES ASSUME NEW c \in live PROVE \E x \in Keys : Sheltered(m, x, c)'
  BY DEF Safe
<1>2. PICK x \in Keys : objs[x] = c /\ x \notin Dests(m)
  BY DEF Safe, Sheltered
<1>3. Sheltered(m, x, c)'
  BY <1>1, <1>2 DEF Sheltered
<1> QED BY <1>3

LEMMA DeleteSafe ==
  ASSUME TypeOK, Loops, NEW m \in Movers, Safe(m), NEW k \in Keys,
         DeleteSource(m, k) \/ DeleteSourceError(m, k)
  PROVE  Safe(m)'
<1>1. /\ pc[m] = "delete" /\ k \in Sources(m) /\ UNCHANGED Fixed
      /\ UNCHANGED live /\ \A x \in Keys \ {k} : objs'[x] = objs[x]
      /\ \E at \in {"delete", "moved", "deleteFailed"} : \E td : Step(m, at, td)
  BY DeleteIs
<1>2. pc'[m] \in {"delete", "moved", "deleteFailed"} /\ Sources(m)' = Sources(m)
  BY <1>1, StepIs
<1> SUFFICES ASSUME NEW c \in live PROVE \E x \in Keys : Sheltered(m, x, c)'
  BY <1>1 DEF Safe
<1>3. PICK x \in Keys : objs[x] = c /\ x \notin Sources(m)
  BY <1>1 DEF Safe, Sheltered
<1>4. Sheltered(m, x, c)'
  BY <1>1, <1>2, <1>3 DEF Sheltered
<1> QED BY <1>4

\* A folder delete gives up what it listed; what it did not list is elsewhere.
LEMMA DeleteFolderListSafe ==
  ASSUME TypeOK, Loops, NEW m \in Movers, Safe(m), NEW f \in Folders, DeleteFolderList(m, f)
  PROVE  Safe(m)'
<1>1. /\ pc'[m] = "removing" /\ todo'[m] = Listed(f) /\ UNCHANGED objs
      /\ live' = live \ {objs[k] : k \in Listed(f)}
  BY DEF DeleteFolderList, TypeOK, Plan, Goto
<1> SUFFICES ASSUME NEW c \in live' PROVE \E x \in Keys : Sheltered(m, x, c)'
  BY DEF Safe
<1>2. c \in live /\ \A k \in Listed(f) : objs[k] # c
  BY <1>1
<1>3. PICK x \in Keys : objs[x] = c
  BY <1>2 DEF Safe, Sheltered
<1>4. Sheltered(m, x, c)'
  BY <1>1, <1>2, <1>3 DEF Sheltered
<1> QED BY <1>4

LEMMA DeleteFolderSafe ==
  ASSUME TypeOK, NEW m \in Movers, Safe(m), NEW k \in Keys,
         DeleteFolderKey(m, k) \/ DeleteFolderError(m, k)
  PROVE  Safe(m)'
<1>1. /\ pc[m] = "removing" /\ k \in todo[m] /\ UNCHANGED Fixed /\ UNCHANGED live
      /\ \A x \in Keys \ {k} : objs'[x] = objs[x]
      /\ Step(m, "idle", {}) \/ Step(m, "removing", todo[m] \ {k})
  BY DeleteFolderIs
<1>2. pc'[m] \in {"idle", "removing"} /\ todo'[m] \subseteq todo[m]
  BY <1>1, StepIs
<1> SUFFICES ASSUME NEW c \in live PROVE \E x \in Keys : Sheltered(m, x, c)'
  BY <1>1 DEF Safe
<1>3. PICK x \in Keys : objs[x] = c /\ x \notin todo[m]
  BY <1>1 DEF Safe, Sheltered
<1>4. Sheltered(m, x, c)'
  BY <1>1, <1>2, <1>3 DEF Sheltered
<1> QED BY <1>4

LEMMA OwnStepSafe ==
  ASSUME TypeOK, Loops, NEW m \in Movers, Good(m), Safe(m), MoveStep(m) \/ RemoveStep(m)
  PROVE  Safe(m)'
<1>1. ASSUME (\E f, t \in Folders : MoveFolderList(m, f, t))
             \/ (\E a, b \in Keys : MoveObjectCheck(m, a, b))
      PROVE  Safe(m)'
  <2>1. pc'[m] = "probe" /\ UNCHANGED <<objs, live>>
    BY <1>1 DEF MoveFolderList, MoveObjectCheck, Plan, Goto, TypeOK
  <2>2. \A c \in live : \E x \in Keys : objs[x] = c
    BY DEF Safe, Sheltered
  <2> QED BY <2>1, <2>2, IdleSafe
<1>2. ASSUME NEW k \in Keys, CopyKeyError(m, k) PROVE Safe(m)'
  BY <1>2, CopyKeyErrorIs, UndoSafe
<1>3. ASSUME NEW d \in Keys, RollbackCopy(m, d) PROVE Safe(m)'
  BY <1>3, RollbackCopyIs, UndoSafe
<1>4. CASE MoveStep(m)
  BY <1>1, <1>2, <1>3, <1>4, ProbeSafe, CopyKeySafe, DeleteSafe DEF MoveStep
<1>5. CASE RemoveStep(m)
  BY <1>5, DeleteFolderListSafe, DeleteFolderSafe DEF RemoveStep
<1> QED BY <1>4, <1>5

\* Another client stores or deletes (c = Null) an object: the contents it does
\* not replace are sheltered where they were.
LEMMA ClientSafe ==
  ASSUME TypeOK, Loops, NEW m \in Movers, Safe(m), NEW k \in Keys, NEW c, Put(Null, k, c),
         UNCHANGED <<pc, target, plan, todo, copied, orig, started>>,
         live' \subseteq (live \ {objs[k]}) \union {x \in {c} : k \notin AtRisk(m)}
  PROVE  Safe(m)'
<1>1. objs'[k] = c /\ \A x \in Keys \ {k} : objs'[x] = objs[x]
  BY DEF Put, TypeOK
<1>2. Sources(m)' = Sources(m) /\ Dests(m)' = Dests(m)
  BY DEF Sources, Dests
<1> SUFFICES ASSUME NEW y \in live' PROVE \E x \in Keys : Sheltered(m, x, y)'
  BY DEF Safe
<1>3. CASE y \in live /\ y # objs[k]
  <2>1. PICK x \in Keys : Sheltered(m, x, y)
    BY <1>3 DEF Safe
  <2>2. x # k /\ objs'[x] = y
    BY <1>1, <1>3, <2>1 DEF Sheltered
  <2>3. x \in Sources(m) /\ objs[plan[m][x]] = y => objs'[plan[m][x]] = y
    BY <1>1, <1>3, PlanFacts
  <2>4. Sheltered(m, x, y)'
    BY <1>2, <2>1, <2>2, <2>3 DEF Sheltered
  <2> QED BY <2>4
<1>4. CASE y = c /\ k \notin AtRisk(m)
  <2>1. pc[m] \in {"copy", "rollback", "delete", "removing"} => k \notin Sources(m) \union Dests(m)
    BY <1>4 DEF AtRisk, Works
  <2>2. pc[m] = "removing" => k \notin todo[m]
    BY <2>1 DEF Loops
  <2>3. Sheltered(m, k, y)'
    BY <1>1, <1>2, <1>4, <2>1, <2>2 DEF Sheltered
  <2> QED BY <2>3
<1> QED BY <1>3, <1>4

LEMMA NextSafe ==
  ASSUME NEW m, Movers = {m}, IInv, Safe(m), [Next]_vars PROVE Safe(m)'
<1>1. TypeOK /\ Loops /\ Good(m) /\ m \in Movers
  BY DEF IInv
<1>2. CASE \E n \in Movers : MoveStep(n) \/ RemoveStep(n)
  BY <1>1, <1>2, OwnStepSafe
<1>3. CASE ClientStep
  <2>1. ASSUME NEW k \in Keys, NEW c \in ClientWrites, ClientWrite(k, c) PROVE Safe(m)'
    <3>1. live' \subseteq (live \ {objs[k]}) \union {x \in {c} : k \notin AtRisk(m)}
      BY <1>1, <2>1 DEF ClientWrite
    <3> QED BY <1>1, <2>1, <3>1, ClientSafe DEF ClientWrite
  <2>2. ASSUME NEW k \in Keys, ClientDelete(k) PROVE Safe(m)'
    BY <1>1, <2>2, ClientSafe DEF ClientDelete, Erase
  <2> QED BY <1>3, <2>1, <2>2 DEF ClientStep
<1>4. CASE Crash
  <2>1. pc'[m] \in EndPCs /\ UNCHANGED <<objs, live>>
    BY <1>1, <1>4 DEF Crash, EndPCs
  <2>2. \A c \in live : \E x \in Keys : objs[x] = c
    BY DEF Safe, Sheltered
  <2> QED BY <2>1, <2>2, IdleSafe DEF EndPCs
<1>5. CASE UNCHANGED vars
  BY <1>5 DEF vars, Safe, Sheltered, Sources, Dests
<1> QED BY <1>2, <1>3, <1>4, <1>5 DEF Next

\* Whichever calls fail, wherever the process stops and whatever other clients
\* do, a content no one asked to delete is still stored, unless it was written
\* at a key the request was working on: MoveFolderFlat copies before it deletes,
\* its rollback removes destinations only, and a folder delete what it listed.
THEOREM NothingIsLost ==
  ASSUME NEW m, Movers = {m} PROVE Spec => []NothingLost
<1>1. Init => Safe(m)
  <2> SUFFICES ASSUME Init PROVE Safe(m)
    OBVIOUS
  <2>1. pc[m] = "idle" /\ \A c \in live : \E x \in Keys : objs[x] = c
    BY FlatAssumption DEF Init, Present
  <2> QED BY <2>1 DEF Safe, Sheltered
<1>2. IInv /\ Safe(m) /\ [Next]_vars => Safe(m)'
  BY NextSafe
<1>3. Spec => []IInv
  BY FlatInvariant
<1>4. Safe(m) => NothingLost
  BY DEF Safe, Sheltered, NothingLost
<1> QED BY <1>1, <1>2, <1>3, <1>4, PTL DEF Spec

=============================================================================
