------------------------ MODULE AdminConsoleProofs ------------------------
(***************************************************************************)
(* What holds of AdminConsole for any number of operations and tables.     *)
(***************************************************************************)
EXTENDS AdminConsole, FiniteSetTheorems, TLAPS

\* The calls of an operation whose reload has begun are all answered, and only
\* the operations that change rows have any.
CallsInv ==
    \A t \in Task :
        /\ task[t].step \in {"reload", "refused"} => \A i \in Item : task[t].call[i] \in {"none", "done"}
        /\ task[t].op \notin Changes => \A i \in Item : task[t].call[i] = "none"

\* The last write of a row is in the trail, or its handler says so next, or failed.
Written(i) ==
    \/ <<i, rows[i].writes>> \in trail \union unlogged
    \/ \E t \in Task : At(t, i, "audit") /\ task[t].wrote[i] = rows[i].writes

\* The inductive form of TrailComplete: what a call has answered is in the trail already.
TrailInv ==
    /\ \A i \in Audited : rows[i].here => Written(i)
    /\ \A t \in Task, i \in Item :
          /\ At(t, i, "audit") => task[t].wrote[i] > 0
          /\ At(t, i, "done") /\ Logged(t, i) => <<i, task[t].wrote[i]>> \in trail

\* The inductive form of ShownKeepsUp: a list of a reload was read after the
\* writes of its own operation, and after what the tables show.
ListInv ==
    /\ \A i \in Item : shown[i].writes <= rows[i].writes
    /\ \A t \in Task :
          /\ task[t].step # "reload" => task[t].listed = {}
          /\ \A i \in Item : task[t].wrote[i] <= rows[i].writes
          /\ \A i \in task[t].listed :
                /\ task[t].wrote[i] <= task[t].list[i].writes
                /\ task[t].list[i].writes <= rows[i].writes
                /\ ~crowded => shown[i].writes <= task[t].list[i].writes

Inv == TypeOK /\ MaskHolds /\ CallsInv /\ TrailInv /\ ListInv

-----------------------------------------------------------------------------
(* What the parts of an action do to the operations *)

CallState == {"none", "write", "audit", "done", "failed"}

LEMMA NothingType == Nothing \in [Item -> Row] /\ \A i \in Item : Nothing[i].writes = 0 /\ ~Nothing[i].here
  BY DEF Nothing, NoRow, Row

LEMMA RestType ==
    /\ Rest \in Operation /\ Rest.step = "over" /\ Rest.op = "none" /\ Rest.listed = {} /\ Rest.list = Nothing
    /\ \A i \in Item : Rest.call[i] = "none" /\ Rest.wrote[i] = 0
  BY NothingType DEF Rest, Operation

\* The call of one row moves on, and nothing else.
LEMMA CallMoves ==
    ASSUME TypeOK, NEW t \in Task, NEW i \in Item, NEW c \in CallState, Goto(t, i, c)
    PROVE  /\ task' \in [Task -> Operation]
           /\ \A u \in Task \ {t} : task'[u] = task[u]
           /\ task'[t].op = task[t].op /\ task'[t].step = task[t].step /\ task'[t].wrote = task[t].wrote
           /\ task'[t].list = task[t].list /\ task'[t].listed = task[t].listed
           /\ task'[t].call[i] = c /\ \A j \in Item \ {i} : task'[t].call[j] = task[t].call[j]
<1>1. task' = [task EXCEPT ![t] = [task[t] EXCEPT !.call = [task[t].call EXCEPT ![i] = c]]]
  BY DEF Goto
<1>2. task[t] \in Operation /\ task[t].call \in [Item -> CallState]
  BY DEF TypeOK, Operation, CallState
<1>3. PICK f \in [Item -> CallState] : f = [task[t].call EXCEPT ![i] = c]
  BY <1>2
<1>4. PICK r : r = [task[t] EXCEPT !.call = f]
  OBVIOUS
<1>5. /\ r \in Operation /\ r.call = f
      /\ r.op = task[t].op /\ r.step = task[t].step /\ r.wrote = task[t].wrote
      /\ r.list = task[t].list /\ r.listed = task[t].listed
  BY <1>2, <1>4 DEF Operation, CallState
<1>6. task' = [task EXCEPT ![t] = r]
  BY <1>1, <1>3, <1>4
<1>7. task' \in [Task -> Operation] /\ task'[t] = r /\ \A u \in Task \ {t} : task'[u] = task[u]
  BY <1>5, <1>6 DEF TypeOK
<1>8. f[i] = c /\ \A j \in Item \ {i} : f[j] = task[t].call[j]
  BY <1>2, <1>3
<1> QED BY <1>5, <1>7, <1>8

\* The operation takes its next step, and its calls stay as they are.
LEMMA StepMoves ==
    ASSUME TypeOK, NEW t \in Task, NEW s \in {"calls", "served", "reload", "refused"},
           task' = [task EXCEPT ![t].step = s]
    PROVE  /\ task' \in [Task -> Operation]
           /\ \A u \in Task \ {t} : task'[u] = task[u]
           /\ task'[t].op = task[t].op /\ task'[t].step = s /\ task'[t].wrote = task[t].wrote
           /\ task'[t].list = task[t].list /\ task'[t].listed = task[t].listed /\ task'[t].call = task[t].call
<1>1. PICK r : r = [task[t] EXCEPT !.step = s]
  OBVIOUS
<1>2. task[t] \in Operation
  BY DEF TypeOK
<1>3. /\ r \in Operation /\ r.step = s
      /\ r.op = task[t].op /\ r.wrote = task[t].wrote /\ r.list = task[t].list
      /\ r.listed = task[t].listed /\ r.call = task[t].call
  BY <1>1, <1>2 DEF Operation
<1>4. task' = [task EXCEPT ![t] = r]
  BY <1>1
<1>5. task' \in [Task -> Operation] /\ task'[t] = r /\ \A u \in Task \ {t} : task'[u] = task[u]
  BY <1>3, <1>4 DEF TypeOK
<1> QED BY <1>3, <1>5

\* What is left of an operation is over, and keeps the calls that are pending.
LEMMA LeftKeeps ==
    ASSUME TypeOK, NEW t \in Task
    PROVE  /\ Left(t) \in Operation /\ Left(t).step = "over" /\ Left(t).listed = {}
           /\ \/ Left(t) = Rest /\ Pending(t) = {}
              \/ Left(t).op = task[t].op /\ Left(t).call = task[t].call /\ Left(t).wrote = task[t].wrote
<1>1. CASE Pending(t) = {}
  BY <1>1, RestType DEF Left
<1>2. CASE Pending(t) # {}
  <2>1. Left(t) = [task[t] EXCEPT !.step = "over", !.list = Nothing, !.listed = {}]
    BY <1>2 DEF Left
  <2>2. task[t] \in Operation /\ Nothing \in [Item -> Row]
    BY NothingType DEF TypeOK
  <2>3. Left(t) \in Operation
    BY <2>1, <2>2 DEF Operation
  <2>4. /\ Left(t).step = "over" /\ Left(t).listed = {}
        /\ Left(t).op = task[t].op /\ Left(t).call = task[t].call /\ Left(t).wrote = task[t].wrote
    BY <2>1, <2>2 DEF Operation
  <2> QED BY <2>3, <2>4
<1> QED BY <1>1, <1>2

LEMMA UnderWayFinite == IsFiniteSet(UnderWay) /\ Cardinality(UnderWay) \in Nat /\ (Cardinality(UnderWay) <= 1 => \A t, u \in UnderWay : t = u)
<1>1. IsFiniteSet(UnderWay)
  BY ConsoleAssumption, FS_Subset DEF UnderWay
<1>2. ASSUME NEW t \in UnderWay, NEW u \in UnderWay, t # u PROVE Cardinality(UnderWay) > 1
  <2>1. Cardinality({t, u}) = 2
    <3>1. IsFiniteSet({t}) /\ Cardinality({t}) = 1
      BY FS_Singleton
    <3>2. Cardinality({t} \union {u}) = Cardinality({t}) + 1
      BY <1>2, <3>1, FS_AddElement
    <3>3. {t} \union {u} = {t, u}
      OBVIOUS
    <3> QED BY <3>1, <3>2, <3>3
  <2>2. Cardinality({t, u}) <= Cardinality(UnderWay)
    BY <1>1, FS_Subset
  <2> QED BY <1>1, <2>1, <2>2, FS_CardinalityType
<1> QED BY <1>1, <1>2, FS_CardinalityType

LEMMA AtMostOne ==
    ASSUME NEW S, NEW t, S \subseteq {t}
    PROVE  Cardinality(S) <= 1
<1>1. IsFiniteSet({t}) /\ Cardinality({t}) = 1
  BY FS_Singleton
<1> QED BY <1>1, FS_Subset

\* The mask with the operations that have not ended the same.
LEMMA MaskSame ==
    ASSUME MaskHolds, UNCHANGED <<loading, crowded>>, UnderWay' = UnderWay
    PROVE  MaskHolds'
  BY DEF MaskHolds

\* The end of an operation takes the mask away.
LEMMA MaskFinish ==
    ASSUME TypeOK, MaskHolds, NEW t \in UnderWay, Finish(t)
    PROVE  MaskHolds' /\ UnderWay' = UnderWay \ {t} /\ (~crowded' => UnderWay' = {})
<1>1. t \in Task
  BY DEF UnderWay
<1>2. task'[t].step = "over" /\ \A u \in Task \ {t} : task'[u] = task[u]
  BY <1>1, LeftKeeps DEF Finish, TypeOK
<1>3. UnderWay' = UnderWay \ {t}
  BY <1>2 DEF UnderWay
<1>4. ASSUME ~crowded' PROVE UnderWay' = {}
  <2>1. ~crowded \/ UnderWay = {t}
    BY <1>4 DEF Finish
  <2>2. UnderWay = {t}
    BY <2>1, UnderWayFinite DEF MaskHolds
  <2> QED BY <1>3, <2>2
<1> QED BY <1>3, <1>4, FS_EmptySet DEF MaskHolds, Finish

-----------------------------------------------------------------------------
(* The handlers *)

\* A handler that has written a row: what it leaves of the operation.
LEMMA WriteMoves ==
    ASSUME TypeOK, NEW t \in Task, NEW i \in Item, HandlerWrite(t, i)
    PROVE  /\ rows' \in [Item -> Row] /\ task' \in [Task -> Operation]
           /\ rows'[i].writes = rows[i].writes + 1 /\ rows'[i].here = (task[t].op # "delete")
           /\ \A j \in Item \ {i} : rows'[j] = rows[j]
           /\ \A u \in Task \ {t} : task'[u] = task[u]
           /\ task'[t].op = task[t].op /\ task'[t].step = task[t].step
           /\ task'[t].list = task[t].list /\ task'[t].listed = task[t].listed
           /\ task'[t].call[i] = (IF Logged(t, i) THEN "audit" ELSE "done")
           /\ task'[t].wrote[i] = rows[i].writes + 1
           /\ \A j \in Item \ {i} : task'[t].call[j] = task[t].call[j] /\ task'[t].wrote[j] = task[t].wrote[j]
<1>1. PICK c \in CallState : c = IF Logged(t, i) THEN "audit" ELSE "done"
  BY DEF CallState
<1>2. rows[i] \in Row /\ rows[i].writes \in Nat
  BY DEF TypeOK, Row
<1>3. PICK n \in Nat : n = rows[i].writes + 1
  BY <1>2
<1>4. task[t] \in Operation /\ task[t].call \in [Item -> CallState] /\ task[t].wrote \in [Item -> Nat]
  BY DEF TypeOK, Operation, CallState
<1>5. PICK f \in [Item -> CallState] : f = [task[t].call EXCEPT ![i] = c]
  BY <1>4
<1>6. PICK g \in [Item -> Nat] : g = [task[t].wrote EXCEPT ![i] = n]
  BY <1>4
<1>7. PICK r : r = [task[t] EXCEPT !.call = f, !.wrote = g]
  OBVIOUS
<1>8. /\ r \in Operation /\ r.call = f /\ r.wrote = g
      /\ r.op = task[t].op /\ r.step = task[t].step /\ r.list = task[t].list /\ r.listed = task[t].listed
  BY <1>4, <1>7 DEF Operation, CallState
<1>9. task' = [task EXCEPT ![t] = r]
  <2>1. task' = [task EXCEPT ![t].call[i] = c, ![t].wrote[i] = n]
    BY <1>1, <1>3 DEF HandlerWrite
  <2> QED BY <1>4, <1>5, <1>6, <1>7, <2>1 DEF TypeOK, Operation
<1>10. task' \in [Task -> Operation] /\ task'[t] = r /\ \A u \in Task \ {t} : task'[u] = task[u]
  BY <1>8, <1>9 DEF TypeOK
<1>11. f[i] = c /\ g[i] = n /\ \A j \in Item \ {i} : f[j] = task[t].call[j] /\ g[j] = task[t].wrote[j]
  BY <1>4, <1>5, <1>6
<1>12. rows' = [rows EXCEPT ![i] = [here |-> task[t].op # "delete", writes |-> n]]
  BY <1>3 DEF HandlerWrite
<1>13. /\ rows' \in [Item -> Row] /\ rows'[i].writes = n /\ rows'[i].here = (task[t].op # "delete")
       /\ \A j \in Item \ {i} : rows'[j] = rows[j]
  BY <1>12 DEF TypeOK, Row
<1> QED BY <1>1, <1>3, <1>8, <1>10, <1>11, <1>13

\* A call that is pending is not one of a reload, so no reload reads past it.
LEMMA HandlerWriteStep ==
    ASSUME Inv, NEW t \in Task, NEW i \in Item, HandlerWrite(t, i)
    PROVE  Inv'
<1> USE DEF Inv
<1>1. UNCHANGED <<trail, unlogged, due, signedIn, asked, loading, shown, crowded>> /\ task[t].call[i] = "write"
  BY DEF HandlerWrite, page, At
<1>2. TypeOK'
  BY <1>1, WriteMoves DEF TypeOK
<1>3. MaskHolds'
  <2>1. UnderWay' = UnderWay
    BY WriteMoves DEF UnderWay
  <2> QED BY <1>1, <2>1, MaskSame
<1>4. task[t].step \notin {"reload", "refused"} /\ task[t].op \in Changes
  BY <1>1 DEF CallsInv
<1>5. CallsInv'
  BY <1>4, WriteMoves DEF CallsInv
<1>6. TrailInv'
  <2>1. ASSUME NEW j \in Audited, rows'[j].here PROVE Written(j)'
    <3>0. j \in Item
      BY ConsoleAssumption
    <3>1. CASE j = i
      <4>1. Logged(t, i)
        BY <2>1, <3>1, WriteMoves DEF Logged
      <4>2. task'[t].call[i] = "audit" /\ task'[t].wrote[i] = rows'[i].writes
        BY <4>1, WriteMoves
      <4> QED BY <3>1, <4>2 DEF Written, At
    <3>2. CASE j # i
      <4>1. rows'[j] = rows[j]
        BY <3>0, <3>2, WriteMoves
      <4>2. Written(j)
        BY <2>1, <4>1 DEF TrailInv
      <4>3. ASSUME NEW u \in Task
            PROVE  task'[u].call[j] = task[u].call[j] /\ task'[u].wrote[j] = task[u].wrote[j]
        BY <3>0, <3>2, WriteMoves
      <4> QED BY <1>1, <4>1, <4>2, <4>3 DEF Written, At
    <3> QED BY <3>1, <3>2
  <2>2. ASSUME NEW u \in Task, NEW j \in Item
        PROVE  /\ task'[u].call[j] = "audit" => task'[u].wrote[j] > 0
               /\ task'[u].call[j] = "done" /\ Logged(u, j)' => <<j, task'[u].wrote[j]>> \in trail'
    <3>1. CASE u = t /\ j = i
      <4>1. Logged(u, j)' = Logged(t, i)
        BY <3>1, WriteMoves DEF Logged
      <4>2. rows[i].writes \in Nat
        BY DEF TypeOK, Row
      <4> QED BY <3>1, <4>1, <4>2, WriteMoves
    <3>2. CASE ~(u = t /\ j = i)
      <4>1. task'[u].call[j] = task[u].call[j] /\ task'[u].wrote[j] = task[u].wrote[j] /\ task'[u].op = task[u].op
        BY <3>2, WriteMoves
      <4> QED BY <1>1, <4>1 DEF TrailInv, At, Logged
    <3> QED BY <3>1, <3>2
  <2> QED BY <2>1, <2>2 DEF TrailInv, At
<1>7. ListInv'
  <2>1. \A j \in Item : rows[j].writes \in Nat /\ rows'[j].writes \in Nat /\ rows[j].writes <= rows'[j].writes
                        /\ shown[j].writes \in Nat
    BY WriteMoves DEF TypeOK, Row
  <2>2. ASSUME NEW u \in Task, NEW j \in Item PROVE task'[u].wrote[j] <= rows'[j].writes
    <3>1. CASE u = t /\ j = i
      BY <2>1, <3>1, WriteMoves
    <3>2. CASE ~(u = t /\ j = i)
      <4>1. task'[u].wrote[j] = task[u].wrote[j] /\ task[u].wrote[j] \in Nat
        BY <3>2, WriteMoves DEF TypeOK, Operation
      <4> QED BY <2>1, <4>1 DEF ListInv
    <3> QED BY <3>1, <3>2
  <2>3. task'[t].listed = {}
    BY <1>4, WriteMoves DEF ListInv
  <2>4. \A u \in Task : task'[u].step # "reload" => task'[u].listed = {}
    BY WriteMoves DEF ListInv
  <2>5. ASSUME NEW u \in Task, NEW j \in task'[u].listed
        PROVE  /\ task'[u].wrote[j] <= task'[u].list[j].writes
               /\ task'[u].list[j].writes <= rows'[j].writes
               /\ ~crowded' => shown'[j].writes <= task'[u].list[j].writes
    <3>1. task'[u] = task[u] /\ j \in Item
      BY <2>3, <2>5, WriteMoves DEF TypeOK, Operation
    <3>2. task[u].list[j].writes \in Nat
      BY <3>1 DEF TypeOK, Operation, Row
    <3> QED BY <1>1, <2>1, <2>5, <3>1, <3>2 DEF ListInv
  <2>6. \A j \in Item : shown'[j].writes <= rows'[j].writes
    BY <1>1, <2>1 DEF ListInv
  <2> QED BY <2>2, <2>4, <2>5, <2>6 DEF ListInv
<1> QED BY <1>2, <1>3, <1>5, <1>6, <1>7

\* The audit row is written, or the call fails before it.
LEMMA HandlerEndStep ==
    ASSUME Inv, NEW t \in Task, NEW i \in Item, HandlerAudit(t, i) \/ HandlerFail(t, i)
    PROVE  Inv'
<1> USE DEF Inv
<1>1. /\ UNCHANGED <<rows, due, signedIn, asked, loading, shown, crowded>> /\ task[t].call[i] \in {"write", "audit"}
      /\ trail \subseteq trail' /\ unlogged \subseteq unlogged'
  BY DEF HandlerAudit, HandlerFail, page, At, Pending
<1>2. PICK c \in {"done", "failed"} : Goto(t, i, c)
  BY DEF HandlerAudit, HandlerFail
<1>m. /\ task' \in [Task -> Operation]
      /\ \A u \in Task \ {t} : task'[u] = task[u]
      /\ task'[t].op = task[t].op /\ task'[t].step = task[t].step /\ task'[t].wrote = task[t].wrote
      /\ task'[t].list = task[t].list /\ task'[t].listed = task[t].listed
      /\ task'[t].call[i] = c /\ \A j \in Item \ {i} : task'[t].call[j] = task[t].call[j]
  BY <1>2, CallMoves DEF CallState
<1>w. task[t].wrote[i] \in Nat /\ (c = "done" => <<i, task[t].wrote[i]>> \in trail')
  BY <1>m DEF HandlerAudit, HandlerFail, TypeOK, Operation, Goto
<1>3. TypeOK'
  <2>1. trail' \subseteq Item \X Nat /\ unlogged' \subseteq Item \X Nat
    BY <1>w DEF HandlerAudit, HandlerFail, TypeOK
  <2> QED BY <1>1, <1>m, <2>1 DEF TypeOK
<1>4. MaskHolds'
  <2>1. UnderWay' = UnderWay
    BY <1>m DEF UnderWay
  <2> QED BY <1>1, <2>1, MaskSame
<1>5. task[t].step \notin {"reload", "refused"} /\ task[t].op \in Changes
  BY <1>1 DEF CallsInv
<1>6. CallsInv'
  BY <1>5, <1>m DEF CallsInv
<1>7. TrailInv'
  <2>1. ASSUME NEW j \in Audited, rows'[j].here PROVE Written(j)'
    <3>0. j \in Item /\ Written(j) /\ rows'[j] = rows[j]
      BY <1>1, <2>1, ConsoleAssumption DEF TrailInv
    <3>1. CASE <<j, rows[j].writes>> \in trail \union unlogged
      BY <1>1, <3>0, <3>1 DEF Written
    <3>2. ASSUME NEW u \in Task, task[u].call[j] = "audit", task[u].wrote[j] = rows[j].writes PROVE Written(j)'
      <4>1. CASE u = t /\ j = i
        <5>1. task[t].wrote[i] > 0
          BY <3>2, <4>1 DEF TrailInv, At
        <5>2. <<i, task[t].wrote[i]>> \in trail' \union unlogged'
          BY <1>w, <5>1 DEF HandlerAudit, HandlerFail
        <5> QED BY <3>0, <3>2, <4>1, <5>2 DEF Written
      <4>2. CASE ~(u = t /\ j = i)
        BY <1>m, <3>0, <3>2, <4>2 DEF Written, At
      <4> QED BY <4>1, <4>2
    <3> QED BY <3>0, <3>1, <3>2 DEF Written, At
  <2>2. ASSUME NEW u \in Task, NEW j \in Item
        PROVE  /\ task'[u].call[j] = "audit" => task'[u].wrote[j] > 0
               /\ task'[u].call[j] = "done" /\ Logged(u, j)' => <<j, task'[u].wrote[j]>> \in trail'
    <3>1. CASE u = t /\ j = i
      BY <1>m, <1>w, <3>1
    <3>2. CASE ~(u = t /\ j = i)
      <4>1. task'[u].call[j] = task[u].call[j] /\ task'[u].wrote[j] = task[u].wrote[j] /\ task'[u].op = task[u].op
        BY <1>m, <3>2
      <4> QED BY <1>1, <4>1 DEF TrailInv, At, Logged
    <3> QED BY <3>1, <3>2
  <2> QED BY <2>1, <2>2 DEF TrailInv, At
<1>8. ListInv'
  <2>1. \A u \in Task : /\ task'[u].step = task[u].step /\ task'[u].wrote = task[u].wrote
                        /\ task'[u].list = task[u].list /\ task'[u].listed = task[u].listed
    BY <1>m
  <2> QED BY <1>1, <2>1 DEF ListInv
<1> QED BY <1>3, <1>4, <1>6, <1>7, <1>8

-----------------------------------------------------------------------------
(* Operations go on *)

\* An operation takes a step of its own: a reload begins only when its calls
\* are answered, and nothing is listed yet.
LEMMA AdvanceStep ==
    ASSUME Inv, NEW t \in UnderWay, NEW s \in {"served", "reload", "refused"},
           task' = [task EXCEPT ![t].step = s], UNCHANGED <<rows, trail, unlogged, shown, crowded>>,
           loading' \in {loading, TRUE}, {due', signedIn', asked'} \subseteq BOOLEAN, task[t].step # "reload",
           s \in {"reload", "refused"} => \A i \in Item : task[t].call[i] \in {"none", "done"}
    PROVE  Inv'
<1> USE DEF Inv
<1>0. t \in Task /\ loading' \in BOOLEAN
  BY DEF UnderWay, TypeOK
<1>1. /\ task' \in [Task -> Operation]
      /\ \A u \in Task \ {t} : task'[u] = task[u]
      /\ task'[t].op = task[t].op /\ task'[t].step = s /\ task'[t].wrote = task[t].wrote
      /\ task'[t].list = task[t].list /\ task'[t].listed = task[t].listed /\ task'[t].call = task[t].call
  BY <1>0, StepMoves
<1>2. TypeOK'
  BY <1>0, <1>1 DEF TypeOK
<1>3. MaskHolds'
  <2>1. UnderWay' = UnderWay
    BY <1>0, <1>1 DEF UnderWay
  <2> QED BY <2>1 DEF MaskHolds
<1>4. CallsInv'
  BY <1>0, <1>1 DEF CallsInv
<1>5. \A u \in Task : task'[u].op = task[u].op /\ task'[u].call = task[u].call /\ task'[u].wrote = task[u].wrote
  BY <1>1
<1>6. TrailInv'
  BY <1>5 DEF TrailInv, Written, At, Logged
<1>7. task[t].listed = {}
  BY <1>0 DEF ListInv
<1>8. ListInv'
  <2>1. \A u \in Task : task'[u].listed # {} => task'[u] = task[u]
    BY <1>1, <1>7
  <2> QED BY <1>0, <1>1, <1>5, <1>7, <2>1 DEF ListInv
<1> QED BY <1>2, <1>3, <1>4, <1>6, <1>8

\* A list is read: it shows the writes of the operation, and all the tables show.
LEMMA ListReadStep ==
    ASSUME Inv, NEW t \in Task, NEW i \in Item, ListRead(t, i)
    PROVE  Inv'
<1> USE DEF Inv
<1>1. /\ UNCHANGED <<rows, trail, unlogged, due, signedIn, asked, loading, shown, crowded>>
      /\ task[t].step = "reload" /\ i \notin task[t].listed
  BY DEF ListRead, server, page
<1>2. task[t] \in Operation /\ task[t].list \in [Item -> Row] /\ task[t].listed \in SUBSET Item /\ rows[i] \in Row
  BY DEF TypeOK, Operation
<1>3. PICK f \in [Item -> Row] : f = [task[t].list EXCEPT ![i] = rows[i]]
  BY <1>2
<1>4. PICK I \in SUBSET Item : I = task[t].listed \union {i}
  BY <1>2
<1>5. PICK r : r = [task[t] EXCEPT !.list = f, !.listed = I]
  OBVIOUS
<1>6. /\ r \in Operation /\ r.list = f /\ r.listed = I
      /\ r.op = task[t].op /\ r.step = task[t].step /\ r.call = task[t].call /\ r.wrote = task[t].wrote
  BY <1>2, <1>5 DEF Operation
<1>7. task' = [task EXCEPT ![t] = r]
  BY <1>2, <1>3, <1>4, <1>5 DEF ListRead, TypeOK, Operation
<1>8. task' \in [Task -> Operation] /\ task'[t] = r /\ \A u \in Task \ {t} : task'[u] = task[u]
  BY <1>6, <1>7 DEF TypeOK
<1>9. f[i] = rows[i] /\ \A j \in Item \ {i} : f[j] = task[t].list[j]
  BY <1>2, <1>3
<1>10. \A u \in Task : /\ task'[u].op = task[u].op /\ task'[u].call = task[u].call
                       /\ task'[u].wrote = task[u].wrote /\ task'[u].step = task[u].step
  BY <1>6, <1>8
<1>11. TypeOK'
  BY <1>1, <1>8 DEF TypeOK
<1>12. MaskHolds'
  <2>1. UnderWay' = UnderWay
    BY <1>10 DEF UnderWay
  <2> QED BY <1>1, <2>1, MaskSame
<1>13. CallsInv' /\ TrailInv'
  BY <1>1, <1>10 DEF CallsInv, TrailInv, Written, At, Logged
<1>14. ListInv'
  <2>1. ASSUME NEW u \in Task, NEW j \in task'[u].listed
        PROVE  /\ task'[u].wrote[j] <= task'[u].list[j].writes
               /\ task'[u].list[j].writes <= rows'[j].writes
               /\ ~crowded' => shown'[j].writes <= task'[u].list[j].writes
    <3>0. j \in Item
      BY <1>8, <2>1 DEF Operation
    <3>1. CASE u = t /\ j = i
      <4>1. task'[u].list[j] = rows[i] /\ task'[u].wrote[j] = task[t].wrote[i]
        BY <1>6, <1>8, <1>9, <3>1
      <4>2. rows[i].writes \in Nat
        BY <1>2 DEF Row
      <4> QED BY <1>1, <3>1, <4>1, <4>2 DEF ListInv
    <3>2. CASE ~(u = t /\ j = i)
      <4>1. j \in task[u].listed /\ task'[u].list[j] = task[u].list[j] /\ task'[u].wrote[j] = task[u].wrote[j]
        BY <1>4, <1>6, <1>8, <1>9, <2>1, <3>0, <3>2
      <4> QED BY <1>1, <4>1 DEF ListInv
    <3> QED BY <3>1, <3>2
  <2>2. \A u \in Task : task'[u].step # "reload" => task'[u].listed = {}
    BY <1>1, <1>8, <1>10 DEF ListInv
  <2> QED BY <1>1, <1>10, <2>1, <2>2 DEF ListInv
<1> QED BY <1>11, <1>12, <1>13, <1>14

\* A new operation takes a free place, whose calls are none of the pending ones.
LEMMA BeginStep ==
    ASSUME Inv, NEW t \in Task, NEW op \in Changes \union {"refresh", "login", "password"},
           NEW s \in {"calls", "reload"}, NEW call \in [Item -> {"none", "write"}], Begin(t, op, s, call),
           UNCHANGED <<rows, trail, unlogged, shown, due, signedIn, asked>>,
           crowded' \in BOOLEAN, ~crowded' => ~crowded /\ ~loading,
           s = "reload" \/ op \notin Changes => \A i \in Item : call[i] = "none"
    PROVE  Inv'
<1> USE DEF Inv
<1>1. task[t].step = "over" /\ Pending(t) = {} /\ loading' = TRUE
  BY DEF Begin, Free, UnderWay
<1>2. PICK r : r = [Rest EXCEPT !.op = op, !.step = s, !.call = call]
  OBVIOUS
<1>3. /\ r \in Operation /\ r.op = op /\ r.step = s /\ r.call = call
      /\ r.wrote = Rest.wrote /\ r.list = Nothing /\ r.listed = {}
  BY <1>2, RestType DEF Operation
<1>4. task' \in [Task -> Operation] /\ task'[t] = r /\ \A u \in Task \ {t} : task'[u] = task[u]
  BY <1>2, <1>3 DEF Begin, TypeOK
<1>5. TypeOK'
  BY <1>1, <1>4 DEF TypeOK
<1>6. MaskHolds'
  <2>1. UnderWay' = UnderWay \union {t}
    BY <1>3, <1>4 DEF UnderWay
  <2>2. ASSUME ~crowded' PROVE Cardinality(UnderWay') <= 1
    <3>1. UnderWay' \subseteq {t}
      BY <2>1, <2>2 DEF MaskHolds
    <3> QED BY <3>1, AtMostOne
  <2> QED BY <1>1, <2>1, <2>2 DEF MaskHolds
<1>7. CallsInv'
  BY <1>3, <1>4 DEF CallsInv
<1>8. TrailInv'
  <2>1. ASSUME NEW u \in Task, NEW j \in Item, task[u].call[j] = "audit" PROVE task'[u] = task[u]
    <3>1. u # t
      BY <1>1, <2>1 DEF Pending
    <3> QED BY <1>4, <3>1
  <2>2. \A j \in Audited : rows'[j].here => Written(j)'
    BY <2>1, ConsoleAssumption DEF TrailInv, Written, At
  <2>3. ASSUME NEW u \in Task, NEW j \in Item
        PROVE  /\ task'[u].call[j] = "audit" => task'[u].wrote[j] > 0
               /\ task'[u].call[j] = "done" /\ Logged(u, j)' => <<j, task'[u].wrote[j]>> \in trail'
    <3>1. CASE u = t
      BY <1>3, <1>4, <3>1
    <3>2. CASE u # t
      BY <1>4, <3>2 DEF TrailInv, At, Logged
    <3> QED BY <3>1, <3>2
  <2> QED BY <2>2, <2>3 DEF TrailInv, At
<1>9. ListInv'
  <2>1. \A j \in Item : rows[j].writes \in Nat /\ r.wrote[j] = 0
    BY <1>3, RestType DEF TypeOK, Row
  <2>2. \A u \in Task : task'[u].step # "reload" => task'[u].listed = {}
    BY <1>3, <1>4 DEF ListInv
  <2>3. ASSUME NEW u \in Task, NEW j \in Item PROVE task'[u].wrote[j] <= rows'[j].writes
    BY <1>4, <2>1 DEF ListInv
  <2>4. ASSUME NEW u \in Task, NEW j \in task'[u].listed
        PROVE  /\ task'[u].wrote[j] <= task'[u].list[j].writes
               /\ task'[u].list[j].writes <= rows'[j].writes
               /\ ~crowded' => shown'[j].writes <= task'[u].list[j].writes
    <3>1. u # t
      BY <1>3, <1>4, <2>4
    <3> QED BY <1>4, <2>4, <3>1 DEF ListInv
  <2> QED BY <2>2, <2>3, <2>4 DEF ListInv
<1> QED BY <1>5, <1>6, <1>7, <1>8, <1>9

-----------------------------------------------------------------------------
(* Operations end, and the page is loaded anew *)

\* An operation that is over, with the calls it left pending or with none, keeps the invariants.
Remains(u) ==
    /\ task' \in [Task -> Operation]
    /\ \/ task'[u] = task[u]
       \/ /\ Pending(u) = {}
          /\ \A i \in Item : task'[u].call[i] = "none" /\ task'[u].wrote[i] = 0
          /\ task'[u].listed = {}
       \/ /\ task'[u].step = "over" /\ task'[u].listed = {}
          /\ task'[u].op = task[u].op /\ task'[u].call = task[u].call /\ task'[u].wrote = task[u].wrote

LEMMA RemainsStep ==
    ASSUME Inv, UNCHANGED <<rows, trail, unlogged>>, \A u \in Task : Remains(u)
    PROVE  CallsInv' /\ TrailInv' /\ \A u \in Task, i \in Item : task'[u].wrote[i] <= rows'[i].writes
<1> USE DEF Inv
<1>1. CallsInv'
  BY DEF Remains, CallsInv
<1>2. ASSUME NEW u \in Task, NEW i \in Item, task[u].call[i] = "audit"
      PROVE  task'[u].call[i] = "audit" /\ task'[u].wrote[i] = task[u].wrote[i]
  <2>1. Pending(u) # {}
    BY <1>2 DEF Pending
  <2> QED BY <1>2, <2>1 DEF Remains
<1>3. \A i \in Audited : rows'[i].here => Written(i)'
  BY <1>2, ConsoleAssumption DEF TrailInv, Written, At
<1>4. ASSUME NEW u \in Task, NEW i \in Item
      PROVE  /\ task'[u].call[i] = "audit" => task'[u].wrote[i] > 0
             /\ task'[u].call[i] = "done" /\ Logged(u, i)' => <<i, task'[u].wrote[i]>> \in trail'
  BY DEF Remains, TrailInv, At, Logged
<1>5. ASSUME NEW u \in Task, NEW i \in Item PROVE task'[u].wrote[i] <= rows'[i].writes
  <2>1. rows[i].writes \in Nat
    BY DEF TypeOK, Row
  <2> QED BY <2>1 DEF Remains, ListInv
<1> QED BY <1>1, <1>3, <1>4, <1>5 DEF TrailInv, At

\* The end of an operation: only then, and only alone, do the tables show its lists.
LEMMA FinishStep ==
    ASSUME Inv, NEW t \in UnderWay, Finish(t), UNCHANGED <<rows, trail, unlogged>>,
           due' \in BOOLEAN, signedIn' \in BOOLEAN, asked' \in BOOLEAN,
           shown' \in [Item -> Row], \A i \in Item : shown'[i].writes <= rows[i].writes,
           shown' = shown \/ \A u \in Task \ {t} : ~crowded => task[u].listed = {}
    PROVE  Inv'
<1> USE DEF Inv
<1>0. t \in Task
  BY DEF UnderWay
<1>1. task' \in [Task -> Operation] /\ task'[t] = Left(t) /\ \A u \in Task \ {t} : task'[u] = task[u]
  BY <1>0, LeftKeeps DEF Finish, TypeOK
<1>2. TypeOK'
  BY <1>1 DEF TypeOK, Finish
<1>3. MaskHolds' /\ (~crowded' => UnderWay' = {})
  BY MaskFinish
<1>4. \A u \in Task : Remains(u)
  BY <1>0, <1>1, LeftKeeps, RestType DEF Remains
<1>5. CallsInv' /\ TrailInv' /\ \A u \in Task, i \in Item : task'[u].wrote[i] <= rows'[i].writes
  BY <1>4, RemainsStep
<1>6. ListInv'
  <2>1. task'[t].listed = {}
    BY <1>0, <1>1, LeftKeeps
  <2>2. \A u \in Task : task'[u].step # "reload" => task'[u].listed = {}
    BY <1>1, <2>1 DEF ListInv
  <2>3. ~crowded' => \A u \in Task : task'[u].step = "over"
    BY <1>3 DEF UnderWay
  <2>4. ASSUME NEW u \in Task, NEW i \in task'[u].listed
        PROVE  /\ task'[u].wrote[i] <= task'[u].list[i].writes
               /\ task'[u].list[i].writes <= rows'[i].writes
               /\ ~crowded' => shown'[i].writes <= task'[u].list[i].writes
    <3>1. u # t /\ task'[u] = task[u]
      BY <1>1, <2>1, <2>4
    <3>2. crowded'
      BY <2>2, <2>3, <2>4
    <3> QED BY <2>4, <3>1, <3>2 DEF ListInv
  <2> QED BY <1>5, <2>2, <2>4 DEF ListInv
<1> QED BY <1>2, <1>3, <1>5, <1>6

\* The page is loaded anew: no operation but the new reload is waited for.
LEMMA MountStep ==
    ASSUME Inv, NEW t \in Task, Mount(t)
    PROVE  Inv'
<1> USE DEF Inv
<1>1. UNCHANGED <<rows, trail, unlogged, due, signedIn>> /\ shown' = Nothing /\ ~crowded' /\ ~asked' /\ loading' = signedIn
  BY DEF Mount, server
<1>2. PICK r : r = [Rest EXCEPT !.op = "refresh", !.step = "reload"]
  OBVIOUS
<1>3. /\ r \in Operation /\ r.step = "reload" /\ r.listed = {} /\ r.call = Rest.call /\ r.wrote = Rest.wrote
  BY <1>2, RestType DEF Operation
<1>4. \A u \in Task : task'[u] = IF u = t /\ signedIn THEN r ELSE Left(u)
  BY <1>2 DEF Mount
<1>5. task' \in [Task -> Operation]
  <2>1. task' = [u \in Task |-> IF u = t /\ signedIn THEN r ELSE Left(u)]
    BY <1>2 DEF Mount
  <2> QED BY <1>3, <2>1, LeftKeeps
<1>6. \A u \in Task : Remains(u)
  BY <1>3, <1>4, <1>5, LeftKeeps, RestType DEF Remains, Mount
<1>7. CallsInv' /\ TrailInv' /\ \A u \in Task, i \in Item : task'[u].wrote[i] <= rows'[i].writes
  BY <1>1, <1>6, RemainsStep
<1>8. TypeOK'
  <2>1. signedIn' \in BOOLEAN /\ due' \in BOOLEAN /\ trail' \subseteq Item \X Nat /\ unlogged' \subseteq Item \X Nat
        /\ rows' \in [Item -> Row]
    BY <1>1 DEF TypeOK
  <2>2. loading' \in BOOLEAN /\ crowded' = FALSE /\ asked' = FALSE /\ shown' \in [Item -> Row]
    <3>1. loading' = signedIn /\ signedIn \in BOOLEAN
      BY <1>1 DEF TypeOK
    <3>2. crowded' = FALSE /\ asked' = FALSE
      BY DEF Mount
    <3> QED BY <1>1, <3>1, <3>2, NothingType
  <2> QED BY <1>5, <2>1, <2>2 DEF TypeOK
<1>9. UnderWay' = IF signedIn THEN {t} ELSE {}
  BY <1>3, <1>4, LeftKeeps DEF UnderWay
<1>10. MaskHolds'
  BY <1>1, <1>9, AtMostOne DEF MaskHolds, TypeOK
<1>11. ListInv'
  <2>1. \A u \in Task : task'[u].listed = {}
    BY <1>3, <1>4, LeftKeeps
  <2>2. \A i \in Item : shown'[i].writes <= rows'[i].writes
    BY <1>1, NothingType DEF TypeOK, Row
  <2> QED BY <1>7, <2>1, <2>2 DEF ListInv
<1> QED BY <1>7, <1>8, <1>10, <1>11

-----------------------------------------------------------------------------
(* The page *)

\* The operations that begin.
LEMMA Begins ==
    ASSUME Inv, NEW t \in Task, BeginChange(t) \/ BeginRefresh(t) \/ BeginLogin(t) \/ BeginPassword(t)
    PROVE  Inv'
<1>1. UNCHANGED <<rows, trail, unlogged, shown, due, signedIn, asked>>
  BY DEF BeginChange, BeginRefresh, BeginLogin, BeginPassword, server
<1>2. crowded' \in BOOLEAN /\ (~crowded' => ~crowded /\ ~loading)
  BY DEF BeginChange, BeginRefresh, BeginLogin, BeginPassword, Inv, TypeOK
<1>3. NoCall \in [Item -> {"none", "write"}] /\ \A i \in Item : NoCall[i] = "none"
  BY DEF NoCall
<1>4. CASE BeginChange(t)
  <2>1. PICK op \in Changes, I \in SUBSET Item :
           Begin(t, op, "calls", [i \in Item |-> IF i \in I THEN "write" ELSE "none"])
    BY <1>4 DEF BeginChange
  <2>2. [i \in Item |-> IF i \in I THEN "write" ELSE "none"] \in [Item -> {"none", "write"}]
    OBVIOUS
  <2> QED BY <1>1, <1>2, <2>1, <2>2, BeginStep
<1>5. CASE BeginRefresh(t)
  BY <1>1, <1>2, <1>3, <1>5, BeginStep DEF BeginRefresh
<1>6. CASE BeginLogin(t)
  BY <1>1, <1>2, <1>3, <1>6, BeginStep DEF BeginLogin, Changes
<1>7. CASE BeginPassword(t)
  BY <1>1, <1>2, <1>3, <1>7, BeginStep DEF BeginPassword, Changes
<1> QED BY <1>4, <1>5, <1>6, <1>7

\* The answers the page gets, and what it makes of them.
LEMMA Settles ==
    ASSUME Inv, NEW t \in Task, Settle(t)
    PROVE  Inv'
<1>0. signedIn \in BOOLEAN /\ asked \in BOOLEAN /\ due \in BOOLEAN /\ shown \in [Item -> Row]
      /\ \A i \in Item : shown[i].writes <= rows[i].writes
  BY DEF Inv, TypeOK, ListInv
<1>1. CASE ServePassword(t)
  <2>1. t \in UnderWay /\ task' = [task EXCEPT ![t].step = "served"] /\ task[t].step # "reload"
        /\ UNCHANGED <<rows, trail, unlogged, shown, crowded, loading, signedIn, asked>> /\ due' = FALSE
    BY <1>1 DEF ServePassword, UnderWay, server, page
  <2>2. {due', signedIn', asked'} \subseteq BOOLEAN
    BY <1>0, <2>1
  <2> QED BY <2>1, <2>2, AdvanceStep
<1>2. CASE \E i \in Item : ListRead(t, i)
  BY <1>2, ListReadStep
<1>3. CASE AcceptChange(t)
  <2>1. t \in UnderWay /\ task[t].step = "calls" /\ UNCHANGED <<rows, trail, unlogged, shown, crowded, signedIn, asked, due>>
    BY <1>3 DEF AcceptChange, UnderWay, server
  <2>2. \A i \in Item : task[t].call[i] \in {"none", "done"}
    BY <1>3 DEF AcceptChange, Items, At
  <2>3. PICK s \in {"reload", "refused"} : task' = [task EXCEPT ![t].step = s]
    BY <1>3 DEF AcceptChange, Reload
  <2>4. loading' = TRUE /\ {due', signedIn', asked'} \subseteq BOOLEAN
    BY <1>0, <1>3, <2>1 DEF AcceptChange, Reload
  <2> QED BY <2>1, <2>2, <2>3, <2>4, AdvanceStep
<1>4. CASE AcceptLogin(t)
  <2>1. t \in UnderWay /\ task[t].step = "calls" /\ UNCHANGED <<rows, trail, unlogged, shown, due>>
        /\ signedIn' = TRUE /\ asked' = due
    BY <1>4 DEF AcceptLogin, UnderWay, server
  <2>2. \A i \in Item : task[t].call[i] = "none"
    BY <1>4 DEF AcceptLogin, Inv, CallsInv, Changes
  <2>3. CASE due
    BY <1>0, <1>4, <2>1, <2>3, FinishStep DEF AcceptLogin
  <2>4. CASE ~due
    <3>1. task' = [task EXCEPT ![t].step = "reload"] /\ loading' = TRUE /\ UNCHANGED crowded
      BY <1>4, <2>4 DEF AcceptLogin, Reload
    <3>2. {due', signedIn', asked'} \subseteq BOOLEAN
      BY <1>0, <2>1
    <3> QED BY <2>1, <2>2, <3>1, <3>2, AdvanceStep
  <2> QED BY <2>3, <2>4
<1>5. CASE AcceptPassword(t)
  <2>1. t \in UnderWay /\ task[t].step = "served" /\ UNCHANGED <<rows, trail, unlogged, shown, crowded, signedIn, due>>
        /\ asked' = FALSE /\ loading' = TRUE
    BY <1>5 DEF AcceptPassword, Reload, UnderWay, server
  <2>2. \A i \in Item : task[t].call[i] = "none"
    BY <1>5 DEF AcceptPassword, Inv, CallsInv, Changes
  <2>3. PICK s \in {"reload", "refused"} : task' = [task EXCEPT ![t].step = s]
    BY <1>5 DEF AcceptPassword, Reload
  <2>4. {due', signedIn', asked'} \subseteq BOOLEAN
    BY <1>0, <2>1
  <2> QED BY <2>1, <2>2, <2>3, <2>4, AdvanceStep
<1>6. CASE AcceptReload(t)
  <2>1. t \in UnderWay /\ Finish(t) /\ UNCHANGED <<rows, trail, unlogged, due, signedIn, asked>> /\ shown' = task[t].list
    BY <1>6 DEF AcceptReload, UnderWay, server
  <2>2. shown' \in [Item -> Row]
    BY <2>1 DEF Inv, TypeOK, Operation
  <2>3. \A i \in Item : shown'[i].writes <= rows[i].writes
    BY <1>6, <2>1 DEF AcceptReload, Inv, ListInv
  <2>4. ASSUME ~crowded, NEW u \in Task \ {t} PROVE task[u].listed = {}
    <3>1. u \notin UnderWay
      BY <2>1, <2>4, UnderWayFinite DEF Inv, MaskHolds
    <3> QED BY <3>1 DEF Inv, ListInv, UnderWay
  <2> QED BY <1>0, <2>1, <2>2, <2>3, <2>4, FinishStep
<1>7. CASE Reject(t)
  <2>1. t \in UnderWay /\ Finish(t) /\ UNCHANGED <<rows, trail, unlogged, due, signedIn, asked, shown>>
    BY <1>7 DEF Reject, GiveUp, UnderWay, server
  <2> QED BY <1>0, <2>1, FinishStep
<1> QED BY <1>1, <1>2, <1>3, <1>4, <1>5, <1>6, <1>7 DEF Settle

LEMMA InvInductive == Spec => []Inv
<1>1. Init => Inv
  <2> SUFFICES ASSUME Init PROVE Inv
    OBVIOUS
  <2>1. TypeOK
    BY NothingType, RestType DEF Init, TypeOK
  <2>2. UnderWay = {}
    BY RestType DEF Init, UnderWay
  <2>3. MaskHolds
    BY <2>2, FS_EmptySet DEF Init, MaskHolds
  <2>4. CallsInv /\ TrailInv
    BY NothingType, RestType, ConsoleAssumption DEF Init, CallsInv, TrailInv, At
  <2>5. ListInv
    BY NothingType, RestType DEF Init, ListInv
  <2> QED BY <2>1, <2>3, <2>4, <2>5 DEF Inv
<1>2. Inv /\ [Next]_vars => Inv'
  <2> SUFFICES ASSUME Inv, [Next]_vars PROVE Inv'
    OBVIOUS
  <2>1. ASSUME NEW t \in Task, BeginChange(t) \/ BeginRefresh(t) \/ BeginLogin(t) \/ BeginPassword(t) PROVE Inv'
    BY <2>1, Begins
  <2>2. ASSUME NEW t \in Task, NEW i \in Item, Handle(t, i) PROVE Inv'
    BY <2>2, HandlerWriteStep, HandlerEndStep DEF Handle
  <2>3. ASSUME NEW t \in Task, Settle(t) PROVE Inv'
    BY <2>3, Settles
  <2>4. ASSUME NEW t \in Task, Lose(t) PROVE Inv'
    <3>1. t \in UnderWay /\ Finish(t) /\ UNCHANGED <<rows, trail, unlogged, due, signedIn, asked, shown>>
      BY <2>4 DEF Lose, GiveUp, server
    <3> QED BY <3>1, FinishStep DEF Inv, TypeOK, ListInv
  <2>5. ASSUME NEW t \in Task, Mount(t) PROVE Inv'
    BY <2>5, MountStep
  <2>6. CASE LogOut
    <3>1. UNCHANGED <<rows, trail, unlogged, due, loading, shown, crowded, task>> /\ signedIn' = FALSE /\ asked' = FALSE
      BY <2>6 DEF LogOut, server
    <3>2. TypeOK'
      BY <3>1 DEF Inv, TypeOK
    <3> QED BY <3>1, <3>2
            DEF Inv, MaskHolds, UnderWay, CallsInv, TrailInv, Written, ListInv, At, Logged
  <2>7. CASE UNCHANGED vars
    <3>1. UNCHANGED <<rows, trail, unlogged, due, loading, shown, crowded, task, signedIn, asked>>
      BY <2>7 DEF vars, server, page
    <3>2. TypeOK'
      BY <3>1 DEF Inv, TypeOK
    <3> QED BY <3>1, <3>2
            DEF Inv, MaskHolds, UnderWay, CallsInv, TrailInv, Written, ListInv, At, Logged
  <2> QED BY <2>1, <2>2, <2>3, <2>4, <2>5, <2>6, <2>7 DEF Next
<1> QED BY <1>1, <1>2, PTL DEF Spec

-----------------------------------------------------------------------------
(* What the page and the trail promise *)

\* The tables, the rows and the operations stay well formed.
THEOREM TypeCorrect == Spec => []TypeOK
  BY InvInductive, PTL DEF Inv

\* The page is masked while something is under way, and only then, unless
\* something was begun past the mask (withMessage's loading flag in App.vue).
THEOREM MaskIsHeld == Spec => []MaskHolds
  BY InvInductive, PTL DEF Inv

\* A write of an audited row is in the trail, or about to be, or its handler
\* failed; what the page reports as a success is in the trail.
THEOREM TrailIsComplete == Spec => []TrailComplete
<1>1. Inv => TrailComplete
  <2> SUFFICES ASSUME Inv PROVE TrailComplete
    OBVIOUS
  <2>1. ASSUME NEW t \in Task, task[t].step \in {"reload", "refused"}, NEW i \in Items(t), Logged(t, i)
        PROVE  <<i, task[t].wrote[i]>> \in trail
    BY <2>1 DEF Inv, CallsInv, TrailInv, Items, At
  <2> QED BY <2>1 DEF Inv, TrailInv, Written, TrailComplete
<1> QED BY <1>1, InvInductive, PTL

\* The tables a reload shows are not older than the change before it, nor,
\* unless something was begun past the mask, than what was shown.
THEOREM TablesKeepUp == Spec => ShownKeepsUp
<1>1. Inv /\ [Next]_vars =>
         [\A t \in Task : AcceptReload(t) =>
            \A i \in Item : /\ shown'[i].writes >= task[t].wrote[i]
                            /\ ~crowded => shown'[i].writes >= shown[i].writes]_vars
  <2> SUFFICES ASSUME Inv, NEW t \in Task, AcceptReload(t), NEW i \in Item
               PROVE  /\ shown'[i].writes >= task[t].wrote[i]
                      /\ ~crowded => shown'[i].writes >= shown[i].writes
    OBVIOUS
  <2>1. shown' = task[t].list /\ task[t].listed = Item
    BY DEF AcceptReload
  <2>2. task[t].list[i].writes \in Nat /\ task[t].wrote[i] \in Nat /\ shown[i].writes \in Nat
    BY DEF Inv, TypeOK, Operation, Row
  <2> QED BY <2>1, <2>2 DEF Inv, ListInv
<1> QED BY <1>1, InvInductive, PTL DEF Spec, ShownKeepsUp
===========================================================================
