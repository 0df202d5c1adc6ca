--------------------------- MODULE DetectionProofs ---------------------------
(***************************************************************************)
(* Of the calls of detection_node and the files they share, for any number *)
(* of processes, types, kills and overlaps: once a window is adopted the   *)
(* call never comes back to its first steps, and until calls overlap or a  *)
(* second one is killed, the count in the buffer file covers what the      *)
(* model has not learned.                                                  *)
(*                                                                         *)
(* And of the two assemblies of the comparison, for any number of          *)
(* processes, deaths and resumptions.                                      *)
(*                                                                         *)
(* And of one resource under watch, for any readings, rules, times and     *)
(* answers of the LLM: what alert, rule, saving and idle band owe to each  *)
(* other, by sums over the window of 30 points.                            *)
(***************************************************************************)
EXTENDS DetectionProperties, Comparison, WatchProperties, FiniteSetTheorems, SequenceTheorems,
        WellFoundedInduction, TLAPS

\* A call has the two fields this is about, and has adopted nothing while it may
\* still ask for the model.
Call(c) == {"at", "adopted"} \subseteq DOMAIN c

Adopts(c) == /\ Call(c) /\ c.adopted \in {0, 1}
             /\ c.at \in {"idle", "model", "buffer"} => c.adopted = 0

AdoptInv == /\ proc = [p \in Procs |-> proc[p]]
            /\ \A p \in Procs : Adopts(proc[p])

\* What p puts in its place keeps the invariant.
LEMMA GotoKeeps ==
    ASSUME AdoptInv, NEW p \in Procs, NEW c, Adopts(c), Goto(p, c)
    PROVE  AdoptInv'
<1>1. \A q \in Procs : proc'[q] = IF q = p THEN c ELSE proc[q]
  BY DEF AdoptInv, Goto
<1>2. proc' = [q \in Procs |-> proc'[q]]
  BY DEF AdoptInv, Goto
<1> QED BY <1>1, <1>2 DEF AdoptInv, Adopts, Call

LEMMA IdleCall == Call(Idle) /\ Idle.at = "idle" /\ Idle.adopted = 0
BY DEF Idle, Call

LEMMA IdleAdopts == Adopts(Idle)
BY IdleCall DEF Adopts

\* A call that is gone on with at another step.
LEMMA ElsewhereAdopts ==
    ASSUME NEW c, Adopts(c), NEW at,
           at \in {"idle", "model", "buffer"} => c.adopted = 0
    PROVE  Adopts([c EXCEPT !.at = at])
BY DEF Adopts, Call

\* A new state of a call, whatever else it says.
LEMMA StateAdopts ==
    ASSUME NEW at, NEW adopted \in {0, 1}, at \in {"idle", "model", "buffer"} => adopted = 0,
           NEW c, Call(c), c.at = at, c.adopted = adopted
    PROVE  Adopts(c)
BY DEF Adopts

LEMMA LoadKeeps ==
    ASSUME AdoptInv, NEW p \in Procs, LoadCachedModel(p)
    PROVE  AdoptInv'
<1>1. Adopts(proc[p]) /\ proc[p].at = "model" /\ proc[p].adopted = 0
  BY DEF AdoptInv, Adopts, LoadCachedModel
<1>2. Adopts(GotModel(p)) /\ Adopts(NoModel(p))
  <2> DEFINE c == [Idle EXCEPT !.at = "model", !.type = proc[p].type, !.shape = proc[p].shape,
                               !.again = TRUE, !.adopted = proc[p].adopted]
  <2>1. Call(c) /\ c.at = "model" /\ c.adopted = 0
    BY <1>1, IdleCall DEF Call
  <2>2. Adopts(c)
    BY <2>1, StateAdopts
  <2> QED BY <2>2, IdleAdopts DEF GotModel, NoModel
<1>3. Adopts([proc[p] EXCEPT !.at = "buffer"])
  BY <1>1, ElsewhereAdopts
<1>4. ASSUME NEW t, NEW b
      PROVE  Adopts([Idle EXCEPT !.at = "fit", !.type = t, !.adopted = proc[p].adopted + 1,
                                 !.byType = b])
  <2> DEFINE c == [Idle EXCEPT !.at = "fit", !.type = t, !.adopted = proc[p].adopted + 1,
                               !.byType = b]
  <2>1. Call(c) /\ c.at = "fit" /\ c.adopted = 1
    BY <1>1, IdleCall DEF Call
  <2> HIDE DEF c
  <2>2. Adopts(c)
    BY <2>1, StateAdopts
  <2> QED BY <2>2 DEF c
<1> QED BY <1>2, <1>3, <1>4, GotoKeeps DEF LoadCachedModel

LEMMA JudgeKeeps ==
    ASSUME AdoptInv, NEW p \in Procs, JudgeWindow(p)
    PROVE  AdoptInv'
<1>1. proc[p].at = "buffer" /\ proc[p].adopted = 0
  BY DEF AdoptInv, Adopts, JudgeWindow
<1>2. Adopts(GotModel(p))
  BY IdleAdopts DEF GotModel
<1>3. ASSUME NEW new \in {0, 1}, NEW t, NEW b, NEW n, NEW fit
      PROVE  Adopts([Idle EXCEPT !.at = "save", !.type = t, !.byType = b, !.pending = n,
                                 !.adopted = proc[p].adopted + new, !.fit = fit])
  <2> DEFINE c == [Idle EXCEPT !.at = "save", !.type = t, !.byType = b, !.pending = n,
                               !.adopted = proc[p].adopted + new, !.fit = fit]
  <2>1. Call(c) /\ c.at = "save" /\ c.adopted = new
    BY <1>1, IdleCall DEF Call
  <2> HIDE DEF c
  <2>2. Adopts(c)
    BY <2>1, StateAdopts
  <2> QED BY <2>2 DEF c
<1>4. CASE proc[p].shape = "short"
  BY <1>2, <1>4, GotoKeeps DEF JudgeWindow
<1>5. CASE proc[p].shape # "short"
  <2>1. PICK low \in BOOLEAN :
          LET t       == proc[p].type
              loaded  == LoadTrainingBuffer
              unseen  == loaded.byType[t] = <<>>
              adopted == IF unseen THEN LooksNormal(proc[p].shape)
                         ELSE ScoresNormal(proc[p].shape, low)
              new     == IF adopted THEN 1 ELSE 0
              byType  == IF adopted THEN Adopt(loaded.byType, t, FreshWindow(t))
                         ELSE loaded.byType
          IN Goto(p, [Idle EXCEPT
                !.at = "save", !.type = t,
                !.byType = byType,
                !.pending = loaded.pending + new,
                !.adopted = proc[p].adopted + new,
                !.fit = /\ Retrain(adopted, unseen, loaded.pending + new)
                        /\ Windows(byType) # {}])
    BY <1>5, Zenon DEF JudgeWindow
  <2> DEFINE t       == proc[p].type
             loaded  == LoadTrainingBuffer
             unseen  == loaded.byType[t] = <<>>
             adopted == IF unseen THEN LooksNormal(proc[p].shape)
                        ELSE ScoresNormal(proc[p].shape, low)
             new     == IF adopted THEN 1 ELSE 0
             byType  == IF adopted THEN Adopt(loaded.byType, t, FreshWindow(t))
                        ELSE loaded.byType
             fit     == /\ Retrain(adopted, unseen, loaded.pending + new)
                        /\ Windows(byType) # {}
             n       == loaded.pending + new
  <2>2. new \in {0, 1}
    OBVIOUS
  <2>3. Goto(p, [Idle EXCEPT !.at = "save", !.type = t, !.byType = byType, !.pending = n,
                             !.adopted = proc[p].adopted + new, !.fit = fit])
    BY <2>1, Zenon
  <2> HIDE DEF t, unseen, adopted, new, byType, fit, n
  <2> QED BY <1>3, <2>2, <2>3, GotoKeeps
<1> QED BY <1>4, <1>5

LEMMA NextKeeps == AdoptInv /\ [Next]_vars => AdoptInv'
<1> SUFFICES ASSUME AdoptInv, [Next]_vars PROVE AdoptInv'
  OBVIOUS
<1>1. CASE UNCHANGED vars
  BY <1>1 DEF vars, AdoptInv, Adopts, Call
<1>2. ASSUME NEW p \in Procs, NEW t \in Types, NEW shape \in Shapes, Begin(p, t, shape)
      PROVE  AdoptInv'
  <2>1. Adopts([Idle EXCEPT !.at = "model", !.type = t, !.shape = shape])
    <3> DEFINE c == [Idle EXCEPT !.at = "model", !.type = t, !.shape = shape]
    <3>1. Call(c) /\ c.at = "model" /\ c.adopted = 0
      BY IdleCall DEF Call
    <3> HIDE DEF c
    <3>2. Adopts(c)
      BY <3>1, StateAdopts
    <3> QED BY <3>2 DEF c
  <2> QED BY <1>2, <2>1, GotoKeeps DEF Begin
<1>3. ASSUME NEW p \in Procs, GetOrTrainIforest(p)
      PROVE  AdoptInv'
  <2>1. Adopts(proc[p]) /\ Adopts(GotModel(p))
    BY IdleAdopts DEF AdoptInv, GotModel
  <2>2. \A at : at \notin {"idle", "model", "buffer"} => Adopts([proc[p] EXCEPT !.at = at])
    BY <2>1, ElsewhereAdopts
  <2>3. CASE TruncateBuffer(p)
    <3>1. PICK at \in {"saving", "resetting"} : Goto(p, [proc[p] EXCEPT !.at = at])
      BY <2>3 DEF TruncateBuffer
    <3> QED BY <2>2, <3>1, GotoKeeps
  <2>4. CASE SaveTrainingBuffer(p)
    BY <2>1, <2>2, <2>4, GotoKeeps DEF SaveTrainingBuffer
  <2>5. CASE TruncateModel(p)
    BY <2>2, <2>5, GotoKeeps DEF TruncateModel
  <2>6. CASE SaveModel(p)
    BY <2>2, <2>6, GotoKeeps DEF SaveModel
  <2>7. CASE ResetCount(p)
    BY <2>1, <2>7, GotoKeeps DEF ResetCount
  <2> QED BY <1>3, <2>3, <2>4, <2>5, <2>6, <2>7, LoadKeeps, JudgeKeeps DEF GetOrTrainIforest
<1>4. ASSUME NEW p \in Procs, Crash(p)
      PROVE  AdoptInv'
  BY <1>4, IdleAdopts, GotoKeeps DEF Crash
<1> QED BY <1>1, <1>2, <1>3, <1>4 DEF Next

\* Whoever trains, kills or overwrites the files meanwhile, one detection adopts its
\* window at most once (detection_agent.py, _get_or_train_iforest and the second call
\* of it in _iforest_score_and_trigger).
THEOREM AdoptsOnce == Spec => []AdoptedOnce
<1>1. Init => AdoptInv
  BY IdleAdopts DEF Init, AdoptInv
<1>2. AdoptInv => AdoptedOnce
  BY DEF AdoptInv, Adopts, AdoptedOnce
<1> QED BY <1>1, <1>2, NextKeeps, PTL DEF Spec
----------------------------------------------------------------------------
(* What the files hold while calls follow one another.                     *)

Somewhere(points) == \E p \in Procs : proc[p].at \in points

\* The windows of each type, whatever a window is.
IsBuffer(b) == \E W : b \in [Types -> Seq(W)]

IsCall(c) ==
    /\ {"at", "type", "byType", "pending"} \subseteq DOMAIN c
    /\ IsBuffer(c.byType) /\ c.pending \in Nat
    /\ c.at \in {"model", "buffer"} => c.type \in Types

IsWork ==
    /\ proc = [p \in Procs |-> proc[p]]
    /\ \A p \in Procs : IsCall(proc[p])
    /\ model.readable \in BOOLEAN /\ buffer.readable \in BOOLEAN
    /\ IsBuffer(buffer.byType) /\ buffer.pending \in Nat
    /\ overlaps \in Nat /\ crashes \in Nat
    /\ overlaps = 0 => \A p, q \in Busy : p = q

\* n covers the windows that were not learned.
Covered(b, learned, n) ==
    LET unlearned == Windows(b) \ learned
    IN  IsFiniteSet(unlearned) /\ Cardinality(unlearned) <= n

FilesCovered ==
    buffer.readable /\ model.readable => Covered(buffer.byType, model.windows, buffer.pending)

\* Of a call: the copy it saves is covered, and the copy it has fitted is what the
\* file holds or was never written.
CallCovered(c) ==
    /\ c.at = "buffer" => model.readable
    /\ c.at \in {"save", "saving"} =>
          model.readable /\ Covered(c.byType, model.windows, c.pending)
    /\ c.at \in {"saving", "resetting"} => ~buffer.readable
    /\ c.at \in {"fit", "fitting", "reset"} /\ crashes = 0 /\ buffer.readable =>
          buffer.byType = c.byType
    /\ c.at \in {"reset", "resetting"} =>
          model.readable /\ model.windows = Windows(c.byType)

\* A first kill may leave a buffer without a model; the cold start after it is then
\* between the two files once, and must not be killed there.
CountInv ==
    overlaps = 0 /\ crashes <= 1 =>
        /\ \A p \in Procs : CallCovered(proc[p])
        /\ FilesCovered \/ (crashes = 1 /\ Somewhere({"reset"}))
        /\ crashes = 0 /\ buffer.readable => model.readable \/ Somewhere({"fitting"})

\* The seed of the frozen types.
Kept == Seeded \ Unfrozen

Seeds(b) == \A t \in Kept : b[t] = <<Seed(t)>>

SeedInv ==
    Undisturbed /\ Kept # {} =>
        /\ buffer.readable => Seeds(buffer.byType)
        /\ model.readable => \A t \in Kept : Seed(t) \in model.windows
        /\ buffer.readable \/ Somewhere({"saving", "resetting"})
        /\ model.readable \/ Somewhere({"fitting"})
        /\ \A p \in Procs :
              /\ proc[p].at = "buffer" => proc[p].type \in Unfrozen
              /\ proc[p].at \notin {"idle", "model", "buffer"} => Seeds(proc[p].byType)
FilesInv == IsWork /\ CountInv /\ SeedInv

\* What is read from a file that was written.
LEMMA FileFields ==
    /\ \A b, n : /\ BufferFile(b, n).readable = TRUE /\ BufferFile(b, n).byType = b
                 /\ BufferFile(b, n).pending = n
    /\ \A b : ModelFile(b).readable /\ ModelFile(b).windows = Windows(b)
    /\ UnreadableBuffer.readable = FALSE /\ UnreadableBuffer.byType = NoBuffer
    /\ UnreadableBuffer.pending = 0
    /\ UnreadableModel.readable = FALSE
BY DEF BufferFile, ModelFile, UnreadableBuffer, UnreadableModel

LEMMA EmptyBuffer == IsBuffer(NoBuffer) /\ Windows(NoBuffer) = {}
<1>1. NoBuffer \in [Types -> Seq({})]
  BY DEF NoBuffer
<1>2. Windows(NoBuffer) = {}
  BY DEF Windows, ToSet, NoBuffer
<1> QED
  BY <1>1, <1>2 DEF IsBuffer

\* One window more, and one less at the limit.
LEMMA AdoptedBuffer ==
    ASSUME NEW b, IsBuffer(b), NEW t \in Types, NEW w
    PROVE  /\ IsBuffer(Adopt(b, t, w))
           /\ Windows(Adopt(b, t, w)) \subseteq Windows(b) \cup {w}
           /\ \A u \in Types \ {t} : Adopt(b, t, w)[u] = b[u]
<1>1. PICK W : b \in [Types -> Seq(W)]
  BY DEF IsBuffer
<1> DEFINE X == W \cup {w}
           bucket == Append(b[t], w)
           new == IF Len(bucket) > MaxWindows THEN Tail(bucket) ELSE bucket
<1>2. \A u \in Types : b[u] \in Seq(X)
  BY <1>1
<1>3. /\ bucket \in Seq(X) /\ Len(bucket) = Len(b[t]) + 1
      /\ \A i \in 1 .. Len(bucket) : bucket[i] \in ToSet(b[t]) \cup {w}
  <2>1. bucket \in Seq(X) /\ Len(bucket) = Len(b[t]) + 1
    BY <1>2
  <2>2. ASSUME NEW i \in 1 .. Len(bucket)
        PROVE  bucket[i] \in ToSet(b[t]) \cup {w}
    BY <1>1, <2>1, <2>2 DEF ToSet
  <2> QED
    BY <2>1, <2>2
<1>11. Len(bucket) > 0
  BY <1>2, <1>3
<1> HIDE DEF bucket
<1>4. /\ Tail(bucket) \in Seq(X) /\ Len(Tail(bucket)) = Len(bucket) - 1
      /\ \A i \in 1 .. Len(Tail(bucket)) : Tail(bucket)[i] = bucket[i + 1]
  BY <1>3, <1>11
<1>5. new \in Seq(X) /\ \A i \in 1 .. Len(new) : new[i] \in ToSet(b[t]) \cup {w}
  BY <1>1, <1>3, <1>4
<1>6. Adopt(b, t, w) = [b EXCEPT ![t] = new]
  BY DEF Adopt, bucket
<1> HIDE DEF new
<1>7. ToSet(new) \subseteq ToSet(b[t]) \cup {w}
  BY <1>5 DEF ToSet
<1>8. Adopt(b, t, w) \in [Types -> Seq(X)]
  BY <1>1, <1>2, <1>5, <1>6
<1>9. \A u \in Types : Adopt(b, t, w)[u] = IF u = t THEN new ELSE b[u]
  BY <1>1, <1>6
<1>10. Windows(Adopt(b, t, w)) \subseteq Windows(b) \cup {w}
  BY <1>7, <1>9 DEF Windows
<1> QED
  BY <1>8, <1>9, <1>10 DEF IsBuffer

\* A window more needs one more in the count.
LEMMA CoveredGrows ==
    ASSUME NEW b, NEW learned, NEW n \in Nat, Covered(b, learned, n), NEW w, NEW c,
           Windows(c) \subseteq Windows(b) \cup {w}
    PROVE  Covered(c, learned, n + 1)
<1> DEFINE old == Windows(b) \ learned
           new == Windows(c) \ learned
<1>1. IsFiniteSet(old) /\ Cardinality(old) <= n
  BY DEF Covered
<1>2. /\ IsFiniteSet(old \cup {w}) /\ Cardinality(old) \in Nat
      /\ Cardinality(old \cup {w}) \in {Cardinality(old), Cardinality(old) + 1}
  BY <1>1, FS_AddElement, FS_CardinalityType
<1>3. new \subseteq old \cup {w}
  OBVIOUS
<1> HIDE DEF old, new
<1>4. IsFiniteSet(new) /\ Cardinality(new) <= Cardinality(old \cup {w})
      /\ Cardinality(new) \in Nat
  BY <1>2, <1>3, FS_Subset, FS_CardinalityType
<1>5. IsFiniteSet(new) /\ Cardinality(new) <= n + 1
  BY <1>1, <1>2, <1>4
<1> QED
  BY <1>5 DEF Covered, new

\* Nothing is unlearned.
LEMMA CoveredByAll ==
    ASSUME NEW b, NEW learned, NEW n \in Nat, Windows(b) \subseteq learned
    PROVE  Covered(b, learned, n)
<1>1. Windows(b) \ learned = {}
  OBVIOUS
<1> QED
  BY <1>1, FS_EmptySet DEF Covered
\* p goes on; a call that follows the others finds them idle.
LEMMA Moves ==
    ASSUME IsWork, NEW p \in Procs, NEW c, Goto(p, c)
    PROVE  /\ proc' = [q \in Procs |-> proc'[q]]
           /\ proc'[p] = c
           /\ \A q \in Procs : q # p => proc'[q] = proc[q]
<1>1. \A q \in Procs : proc'[q] = IF q = p THEN c ELSE proc[q]
  BY DEF IsWork, Goto
<1>2. proc' = [q \in Procs |-> proc'[q]]
  BY DEF IsWork, Goto
<1> QED
  BY <1>1, <1>2

LEMMA OthersIdle ==
    ASSUME IsWork, NEW p \in Procs, NEW c, Goto(p, c), proc[p].at # "idle", overlaps = 0
    PROVE  /\ \A q \in Procs : q # p => proc[q].at = "idle" /\ proc'[q].at = "idle"
           /\ \A points : "idle" \notin points =>
                 /\ Somewhere(points) <=> proc[p].at \in points
                 /\ (\E q \in Procs : proc'[q].at \in points) <=> c.at \in points
<1>1. \A q \in Procs : q # p => proc[q].at = "idle"
  BY DEF IsWork, Busy
<1>2. proc'[p] = c /\ \A q \in Procs : q # p => proc'[q] = proc[q]
  BY Moves
<1> QED
  BY <1>1, <1>2 DEF Somewhere

\* What a step of a call leaves of IsWork to show.
LEMMA WorkGoesOn ==
    ASSUME IsWork, NEW p \in Procs, NEW c, Goto(p, c), proc[p].at # "idle", IsCall(c),
           model'.readable \in BOOLEAN, buffer'.readable \in BOOLEAN,
           IsBuffer(buffer'.byType), buffer'.pending \in Nat,
           overlaps' = overlaps, crashes' \in {crashes, crashes + 1}
    PROVE  IsWork'
<1>1. /\ proc' = [q \in Procs |-> proc'[q]]
      /\ proc'[p] = c
      /\ \A q \in Procs : q # p => proc'[q] = proc[q]
  BY Moves
<1>2. \A q \in Procs : IsCall(proc'[q])
  BY <1>1 DEF IsWork
<1>3. Busy' \subseteq Busy
  BY <1>1 DEF Busy
<1> QED
  BY <1>1, <1>2, <1>3 DEF IsWork, IsCall, IsBuffer

\* The same of CountInv and of SeedInv.
LEMMA CountGoesOn ==
    ASSUME IsWork, NEW p \in Procs, NEW c, Goto(p, c), proc[p].at # "idle",
           overlaps' = overlaps,
           overlaps = 0 /\ crashes' <= 1 =>
             /\ /\ c.at = "buffer" => model'.readable
                /\ c.at \in {"save", "saving"} =>
                      model'.readable /\ Covered(c.byType, model'.windows, c.pending)
                /\ c.at \in {"saving", "resetting"} => ~buffer'.readable
                /\ c.at \in {"fit", "fitting", "reset"} /\ crashes' = 0 /\ buffer'.readable
                      => buffer'.byType = c.byType
                /\ c.at \in {"reset", "resetting"} =>
                      model'.readable /\ model'.windows = Windows(c.byType)
             /\ FilesCovered' \/ (crashes' = 1 /\ c.at = "reset")
             /\ crashes' = 0 /\ buffer'.readable => model'.readable \/ c.at = "fitting"
    PROVE  CountInv'
<1> SUFFICES ASSUME overlaps' = 0, crashes' <= 1
             PROVE  /\ \A q \in Procs : CallCovered(proc[q])'
                    /\ FilesCovered' \/ (crashes' = 1 /\ Somewhere({"reset"})')
                    /\ crashes' = 0 /\ buffer'.readable =>
                          model'.readable \/ Somewhere({"fitting"})'
  BY DEF CountInv
<1>1. /\ proc'[p] = c
      /\ \A q \in Procs : q # p => proc'[q].at = "idle"
  BY Moves, OthersIdle
<1>2. CallCovered(proc[p])'
  BY <1>1 DEF CallCovered
<1>3. \A q \in Procs : q # p => CallCovered(proc[q])'
  BY <1>1 DEF CallCovered
<1> QED
  BY <1>1, <1>2, <1>3 DEF Somewhere

LEMMA SeedGoesOn ==
    ASSUME IsWork, NEW p \in Procs, NEW c, Goto(p, c), proc[p].at # "idle",
           overlaps' = overlaps,
           overlaps = 0 /\ crashes' = 0 /\ Kept # {} =>
             /\ buffer'.readable => Seeds(buffer'.byType)
             /\ model'.readable => \A t \in Kept : Seed(t) \in model'.windows
             /\ buffer'.readable \/ c.at \in {"saving", "resetting"}
             /\ model'.readable \/ c.at = "fitting"
             /\ c.at = "buffer" => c.type \in Unfrozen
             /\ c.at \notin {"idle", "model", "buffer"} => Seeds(c.byType)
    PROVE  SeedInv'
<1>1. /\ proc'[p] = c
      /\ overlaps = 0 => \A q \in Procs : q # p => proc'[q].at = "idle"
  BY Moves, OthersIdle
<1> QED
  BY <1>1 DEF SeedInv, Undisturbed, Somewhere, Seeds, Kept
LEMMA IdleIsCall == IsCall(Idle) /\ Idle.at = "idle"
BY EmptyBuffer DEF IsCall, Idle

\* A call goes on with the same copy.
LEMMA SameCopy ==
    ASSUME NEW c, IsCall(c), NEW at, at \notin {"model", "buffer"} \/ c.type \in Types
    PROVE  LET d == [c EXCEPT !.at = at]
           IN  /\ IsCall(d) /\ d.at = at /\ d.type = c.type
               /\ d.byType = c.byType /\ d.pending = c.pending
BY DEF IsCall

\* What is known of the call at work.
LEMMA CallKnown ==
    ASSUME FilesInv, NEW p \in Procs, proc[p].at # "idle"
    PROVE  /\ IsCall(proc[p])
           /\ overlaps = 0 /\ crashes <= 1 =>
                /\ CallCovered(proc[p])
                /\ FilesCovered \/ (crashes = 1 /\ proc[p].at = "reset")
                /\ crashes = 0 /\ buffer.readable => model.readable \/ proc[p].at = "fitting"
           /\ Undisturbed /\ Kept # {} =>
                /\ buffer.readable => Seeds(buffer.byType)
                /\ model.readable => \A t \in Kept : Seed(t) \in model.windows
                /\ buffer.readable \/ proc[p].at \in {"saving", "resetting"}
                /\ model.readable \/ proc[p].at = "fitting"
                /\ proc[p].at = "buffer" => proc[p].type \in Unfrozen
                /\ proc[p].at \notin {"idle", "model", "buffer"} => Seeds(proc[p].byType)
<1>1. overlaps = 0 => \A q \in Procs : q # p => proc[q].at = "idle"
  BY DEF FilesInv, IsWork, Busy
<1>2. overlaps = 0 => \A points : "idle" \notin points =>
                         (Somewhere(points) <=> proc[p].at \in points)
  BY <1>1 DEF Somewhere
<1> QED
  BY <1>2 DEF FilesInv, IsWork, CountInv, SeedInv, Undisturbed

LEMMA TruncateBufferFiles ==
    ASSUME FilesInv, NEW p \in Procs, TruncateBuffer(p)
    PROVE  FilesInv'
<1>1. PICK at : /\ \/ proc[p].at = "save" /\ at = "saving"
                   \/ proc[p].at = "reset" /\ at = "resetting"
                /\ Goto(p, [proc[p] EXCEPT !.at = at])
  BY DEF TruncateBuffer
<1> DEFINE c == [proc[p] EXCEPT !.at = at]
<1>2. /\ IsCall(c) /\ c.at = at /\ c.byType = proc[p].byType
      /\ c.pending = proc[p].pending
  BY <1>1, CallKnown, SameCopy
<1>3. /\ Goto(p, c) /\ UNCHANGED <<model, crashes, overlaps>>
      /\ buffer'.readable = FALSE /\ IsBuffer(buffer'.byType) /\ buffer'.pending \in Nat
  BY <1>1, FileFields, EmptyBuffer DEF TruncateBuffer
<1> HIDE DEF c
<1>4. proc[p].at # "idle" /\ proc[p].at # "fitting"
  BY <1>1
<1>5. IsWork'
  BY <1>2, <1>3, <1>4, WorkGoesOn DEF FilesInv, IsWork
<1>6. CountInv'
  BY <1>1, <1>2, <1>3, <1>4, CallKnown, CountGoesOn
     DEF FilesInv, CallCovered, FilesCovered
<1>7. SeedInv'
  BY <1>1, <1>2, <1>3, <1>4, CallKnown, SeedGoesOn DEF FilesInv, Seeds, Undisturbed
<1> QED
  BY <1>5, <1>6, <1>7 DEF FilesInv

LEMMA SaveTrainingBufferFiles ==
    ASSUME FilesInv, NEW p \in Procs, SaveTrainingBuffer(p)
    PROVE  FilesInv'
<1> DEFINE fit == [proc[p] EXCEPT !.at = "fit"]
           c == IF proc[p].fit THEN fit ELSE Idle
<1>1. /\ IsCall(fit) /\ fit.at = "fit" /\ fit.byType = proc[p].byType
      /\ proc[p].at = "saving" /\ IsCall(proc[p])
  BY CallKnown, SameCopy DEF SaveTrainingBuffer
<1>2. Goto(p, c) /\ UNCHANGED <<model, crashes, overlaps>>
  BY DEF SaveTrainingBuffer, GotModel
<1>3. /\ buffer'.readable /\ buffer'.byType = proc[p].byType
      /\ buffer'.pending = proc[p].pending
  BY FileFields DEF SaveTrainingBuffer
<1> HIDE DEF fit
<1>4. /\ IsCall(c) /\ c.at \in {"idle", "fit"}
      /\ c.at = "fit" => c.byType = proc[p].byType
  BY <1>1, IdleIsCall
<1> HIDE DEF c
<1>5. IsWork'
  BY <1>1, <1>2, <1>3, <1>4, WorkGoesOn, Zenon DEF FilesInv, IsWork, IsCall
<1>6. CountInv'
  BY <1>1, <1>2, <1>3, <1>4, CallKnown, CountGoesOn
     DEF FilesInv, CallCovered, FilesCovered
<1>7. SeedInv'
  BY <1>1, <1>2, <1>3, <1>4, CallKnown, SeedGoesOn DEF FilesInv, Seeds, Undisturbed
<1> QED
  BY <1>5, <1>6, <1>7 DEF FilesInv

LEMMA TruncateModelFiles ==
    ASSUME FilesInv, NEW p \in Procs, TruncateModel(p)
    PROVE  FilesInv'
<1> DEFINE c == [proc[p] EXCEPT !.at = "fitting"]
<1>1. /\ IsCall(c) /\ c.at = "fitting" /\ c.byType = proc[p].byType
      /\ proc[p].at = "fit"
  BY CallKnown, SameCopy DEF TruncateModel
<1>2. /\ Goto(p, c) /\ UNCHANGED <<buffer, crashes, overlaps>>
      /\ model'.readable = FALSE
  BY FileFields DEF TruncateModel
<1> HIDE DEF c
<1>3. IsWork'
  BY <1>1, <1>2, WorkGoesOn DEF FilesInv, IsWork
<1>4. CountInv'
  BY <1>1, <1>2, CallKnown, CountGoesOn DEF FilesInv, CallCovered, FilesCovered
<1>5. SeedInv'
  BY <1>1, <1>2, CallKnown, SeedGoesOn DEF FilesInv, Seeds, Undisturbed
<1> QED
  BY <1>3, <1>4, <1>5 DEF FilesInv

LEMMA SaveModelFiles ==
    ASSUME FilesInv, NEW p \in Procs, SaveModel(p)
    PROVE  FilesInv'
<1> DEFINE c == [proc[p] EXCEPT !.at = "reset"]
<1>1. /\ IsCall(c) /\ c.at = "reset" /\ c.byType = proc[p].byType
      /\ proc[p].at = "fitting"
  BY CallKnown, SameCopy DEF SaveModel
<1>2. /\ Goto(p, c) /\ UNCHANGED <<buffer, crashes, overlaps>>
      /\ model'.readable /\ model'.windows = Windows(proc[p].byType)
  BY FileFields DEF SaveModel
<1> HIDE DEF c
<1>3. IsWork'
  BY <1>1, <1>2, WorkGoesOn DEF FilesInv, IsWork
<1>4. CountInv'
  <2>1. ASSUME overlaps = 0, crashes <= 1
        PROVE  FilesCovered' \/ crashes = 1
    <3>1. CASE crashes = 0 /\ buffer.readable
      <4>1. buffer.byType = proc[p].byType
        BY <1>1, <2>1, <3>1, CallKnown DEF CallCovered
      <4>2. Covered(buffer.byType, model'.windows, buffer.pending)
        BY <1>2, <4>1, CoveredByAll DEF FilesInv, IsWork
      <4> QED
        BY <1>2, <4>2 DEF FilesCovered
    <3>2. CASE ~buffer.readable
      BY <1>2, <3>2 DEF FilesCovered
    <3> QED
      BY <2>1, <3>1, <3>2 DEF FilesInv, IsWork
  <2> QED
    BY <1>1, <1>2, <2>1, CallKnown, CountGoesOn DEF FilesInv, CallCovered
<1>5. SeedInv'
  <2>1. ASSUME Seeds(proc[p].byType), NEW t \in Kept
        PROVE  Seed(t) \in Windows(proc[p].byType)
    <3>1. ToSet(<<Seed(t)>>) = {Seed(t)}
      BY DEF ToSet
    <3> QED
      BY <2>1, <3>1, DetectionAssumption DEF Seeds, Windows, Kept
  <2> QED
    BY <1>1, <1>2, <2>1, CallKnown, SeedGoesOn DEF FilesInv, Seeds, Undisturbed
<1> QED
  BY <1>3, <1>4, <1>5 DEF FilesInv

LEMMA ResetCountFiles ==
    ASSUME FilesInv, NEW p \in Procs, ResetCount(p)
    PROVE  FilesInv'
<1>1. proc[p].at = "resetting" /\ IsCall(proc[p])
  BY CallKnown DEF ResetCount
<1>2. Goto(p, Idle) /\ UNCHANGED <<model, crashes, overlaps>>
  BY DEF ResetCount, GotModel
<1>3. /\ buffer'.readable /\ buffer'.byType = proc[p].byType
      /\ buffer'.pending = 0
  BY FileFields DEF ResetCount
<1>4. IsWork'
  <2>1. IsBuffer(buffer'.byType) /\ buffer'.pending \in Nat
    BY <1>1, <1>3 DEF IsCall
  <2> QED
    BY <1>1, <1>2, <1>3, <2>1, IdleIsCall, WorkGoesOn DEF FilesInv, IsWork
<1>5. CountInv'
  <2>1. ASSUME overlaps = 0, crashes <= 1
        PROVE  FilesCovered'
    <3>1. Windows(buffer'.byType) \subseteq model'.windows
      BY <1>1, <1>2, <1>3, <2>1, CallKnown DEF CallCovered
    <3> QED
      BY <1>3, <3>1, CoveredByAll DEF FilesCovered
  <2>2. crashes = 0 /\ overlaps = 0 => model.readable
    BY <1>1, CallKnown DEF CallCovered
  <2> QED
    BY <1>1, <1>2, <1>3, <2>1, <2>2, IdleIsCall, CallKnown, CountGoesOn
       DEF FilesInv, CallCovered
<1>6. SeedInv'
  BY <1>1, <1>2, <1>3, IdleIsCall, CallKnown, SeedGoesOn DEF FilesInv, Seeds, Undisturbed
<1> QED
  BY <1>4, <1>5, <1>6 DEF FilesInv
LEMMA LoadFiles ==
    ASSUME FilesInv, NEW p \in Procs, LoadCachedModel(p)
    PROVE  FilesInv'
<1> DEFINE t == proc[p].type
           w == FreshWindow(t)
           toBuffer == [proc[p] EXCEPT !.at = "buffer"]
           toFit == [Idle EXCEPT !.at = "fit", !.type = t, !.adopted = proc[p].adopted + 1,
                                 !.byType = Adopt(NoBuffer, t, w)]
           again == [Idle EXCEPT !.at = "model", !.type = proc[p].type,
                                 !.shape = proc[p].shape, !.again = TRUE,
                                 !.adopted = proc[p].adopted]
<1>1. /\ IsCall(proc[p]) /\ proc[p].at = "model" /\ t \in Types
      /\ UNCHANGED <<model, buffer, crashes, overlaps>>
  BY CallKnown DEF LoadCachedModel, IsCall
<1>2. IsCall(toBuffer) /\ toBuffer.at = "buffer" /\ toBuffer.type = t
  BY <1>1, SameCopy
<1>3. IsCall(toFit) /\ toFit.at = "fit"
  <2>1. /\ {"at", "type", "byType", "pending"} \subseteq DOMAIN toFit
        /\ toFit.at = "fit" /\ toFit.byType = Adopt(NoBuffer, t, w)
        /\ toFit.pending = 0
    BY DEF Idle
  <2> HIDE DEF toFit
  <2> QED
    BY <1>1, <2>1, EmptyBuffer, AdoptedBuffer DEF IsCall
<1>4. IsCall(again) /\ again.at = "model" /\ again.type = t
  <2>1. /\ {"at", "type", "byType", "pending"} \subseteq DOMAIN again
        /\ again.at = "model" /\ again.byType = NoBuffer /\ again.type = t
        /\ again.pending = 0
    BY DEF Idle
  <2> HIDE DEF again
  <2> QED
    BY <1>1, <2>1, EmptyBuffer DEF IsCall
<1>5. \E c : /\ Goto(p, c) /\ IsCall(c)
             /\ \/ c.at = "idle"
                \/ c.at = "model"
                \/ c.at = "buffer" /\ c.type \in Unfrozen /\ model.readable
                \/ c.at = "fit" /\ ~model.readable
  <2> HIDE DEF toBuffer, toFit, again
  <2>1. CASE model.readable
    <3>1. Goto(p, IF Frozen(t) THEN Idle ELSE toBuffer)
      BY <2>1 DEF LoadCachedModel, GotModel, toBuffer
    <3> QED
      BY <1>2, <2>1, <3>1, IdleIsCall DEF Frozen
  <2>2. CASE ~model.readable /\ LooksNormal(proc[p].shape)
    <3>1. Goto(p, toFit)
      BY <2>2 DEF LoadCachedModel, toFit
    <3> QED
      BY <1>3, <2>2, <3>1
  <2>3. CASE ~model.readable /\ ~LooksNormal(proc[p].shape)
    <3>1. Goto(p, IF proc[p].again THEN Idle ELSE again)
      BY <2>3 DEF LoadCachedModel, NoModel, again
    <3> QED
      BY <1>4, <2>3, <3>1, IdleIsCall
  <2> QED
    BY <2>1, <2>2, <2>3
<1>6. PICK c : /\ Goto(p, c) /\ IsCall(c)
               /\ \/ c.at = "idle"
                  \/ c.at = "model"
                  \/ c.at = "buffer" /\ c.type \in Unfrozen /\ model.readable
                  \/ c.at = "fit" /\ ~model.readable
  BY <1>5
<1> HIDE DEF toBuffer, toFit, again
<1>7. IsWork'
  BY <1>1, <1>6, WorkGoesOn DEF FilesInv, IsWork
<1>8. CountInv'
  BY <1>1, <1>6, CallKnown, CountGoesOn DEF FilesInv, FilesCovered
<1>9. SeedInv'
  BY <1>1, <1>6, CallKnown, SeedGoesOn DEF FilesInv, Undisturbed
<1> QED
  BY <1>7, <1>8, <1>9 DEF FilesInv

\* What JudgeWindow makes of the buffer it has loaded.
LEMMA Judged ==
    ASSUME FilesInv, NEW p \in Procs, JudgeWindow(p)
    PROVE  \E c : /\ Goto(p, c) /\ IsCall(c)
                  /\ \/ c.at = "idle"
                     \/ /\ c.at = "save"
                        /\ \/ /\ c.byType = LoadTrainingBuffer.byType
                              /\ c.pending = LoadTrainingBuffer.pending
                           \/ /\ \E w : c.byType = Adopt(LoadTrainingBuffer.byType,
                                                        proc[p].type, w)
                              /\ c.pending = LoadTrainingBuffer.pending + 1
<1> DEFINE loaded == LoadTrainingBuffer
           ty == proc[p].type
           w == FreshWindow(ty)
<1>1. IsCall(proc[p]) /\ proc[p].at = "buffer" /\ ty \in Types
  BY CallKnown DEF JudgeWindow, IsCall
<1>2. IsBuffer(loaded.byType) /\ loaded.pending \in Nat
  BY FileFields, EmptyBuffer DEF LoadTrainingBuffer, FilesInv, IsWork
<1>3. CASE proc[p].shape = "short"
  BY <1>3, IdleIsCall DEF JudgeWindow, GotModel
<1>4. CASE proc[p].shape # "short"
  <2>1. PICK low \in BOOLEAN :
          LET t       == proc[p].type
              found   == LoadTrainingBuffer
              unseen  == found.byType[t] = <<>>
              adopted == IF unseen THEN LooksNormal(proc[p].shape)
                         ELSE ScoresNormal(proc[p].shape, low)
              new     == IF adopted THEN 1 ELSE 0
              byType  == IF adopted THEN Adopt(found.byType, t, FreshWindow(t))
                         ELSE found.byType
          IN Goto(p, [Idle EXCEPT
                !.at = "save", !.type = t,
                !.byType = byType,
                !.pending = found.pending + new,
                !.adopted = proc[p].adopted + new,
                !.fit = /\ Retrain(adopted, unseen, found.pending + new)
                        /\ Windows(byType) # {}])
    BY <1>4, Zenon DEF JudgeWindow
  <2> DEFINE unseen  == loaded.byType[ty] = <<>>
             adopted == IF unseen THEN LooksNormal(proc[p].shape)
                        ELSE ScoresNormal(proc[p].shape, low)
             new     == IF adopted THEN 1 ELSE 0
             byType  == IF adopted THEN Adopt(loaded.byType, ty, w) ELSE loaded.byType
             fit     == /\ Retrain(adopted, unseen, loaded.pending + new)
                        /\ Windows(byType) # {}
             n       == loaded.pending + new
             c       == [Idle EXCEPT !.at = "save", !.type = ty, !.byType = byType,
                                     !.pending = n, !.adopted = proc[p].adopted + new,
                                     !.fit = fit]
  <2>2. Goto(p, c)
    BY <2>1, Zenon
  <2>3. \/ byType = loaded.byType /\ n = loaded.pending
        \/ byType = Adopt(loaded.byType, ty, w) /\ n = loaded.pending + 1
    BY <1>2
  <2> HIDE DEF unseen, adopted, new, byType, fit, n, loaded, w, ty
  <2>4. /\ {"at", "type", "byType", "pending"} \subseteq DOMAIN c
        /\ c.at = "save" /\ c.byType = byType /\ c.pending = n
    BY DEF Idle
  <2> HIDE DEF c
  <2>5. IsBuffer(byType) /\ n \in Nat
    BY <1>1, <1>2, <2>3, AdoptedBuffer
  <2>6. IsCall(c)
    BY <2>4, <2>5 DEF IsCall
  <2> QED
    BY <2>2, <2>3, <2>4, <2>6 DEF loaded, ty
<1> QED
  BY <1>3, <1>4

LEMMA JudgeFiles ==
    ASSUME FilesInv, NEW p \in Procs, JudgeWindow(p)
    PROVE  FilesInv'
<1> DEFINE loaded == LoadTrainingBuffer
<1>1. /\ IsCall(proc[p]) /\ proc[p].at = "buffer" /\ proc[p].type \in Types
      /\ UNCHANGED <<model, buffer, crashes, overlaps>>
  BY CallKnown DEF JudgeWindow, IsCall
<1>2. /\ IsBuffer(loaded.byType) /\ loaded.pending \in Nat
      /\ buffer.readable => loaded = buffer
      /\ ~buffer.readable => loaded.byType = NoBuffer
  BY FileFields, EmptyBuffer DEF LoadTrainingBuffer, FilesInv, IsWork
<1>3. PICK c : /\ Goto(p, c) /\ IsCall(c)
               /\ \/ c.at = "idle"
                  \/ /\ c.at = "save"
                     /\ \/ /\ c.byType = loaded.byType
                           /\ c.pending = loaded.pending
                        \/ /\ \E w : c.byType = Adopt(loaded.byType, proc[p].type, w)
                           /\ c.pending = loaded.pending + 1
  BY Judged
<1>4. IsWork'
  BY <1>1, <1>3, WorkGoesOn DEF FilesInv, IsWork
<1> HIDE DEF loaded
<1>5. CountInv'
  <2>1. ASSUME overlaps = 0, crashes <= 1, c.at = "save"
        PROVE  Covered(c.byType, model.windows, c.pending)
    <3>1. model.readable /\ FilesCovered
      BY <1>1, <2>1, CallKnown DEF CallCovered
    <3>2. Covered(loaded.byType, model.windows, loaded.pending)
      <4>1. CASE buffer.readable
        BY <1>2, <3>1, <4>1 DEF FilesCovered
      <4>2. CASE ~buffer.readable
        BY <1>2, <4>2, EmptyBuffer, CoveredByAll
      <4> QED
        BY <4>1, <4>2 DEF FilesInv, IsWork
    <3>3. CASE c.byType = loaded.byType /\ c.pending = loaded.pending
      BY <3>2, <3>3
    <3>4. CASE /\ \E w : c.byType = Adopt(loaded.byType, proc[p].type, w)
               /\ c.pending = loaded.pending + 1
      <4>1. PICK w : c.byType = Adopt(loaded.byType, proc[p].type, w)
        BY <3>4
      <4>2. Windows(c.byType) \subseteq Windows(loaded.byType) \cup {w}
        BY <1>1, <1>2, <4>1, AdoptedBuffer
      <4>3. Covered(c.byType, model.windows, loaded.pending + 1)
        BY <1>2, <3>2, <4>2, CoveredGrows
      <4> QED
        BY <3>4, <4>3
    <3> QED
      BY <1>3, <2>1, <3>3, <3>4
  <2> QED
    BY <1>1, <1>3, <2>1, CallKnown, CountGoesOn DEF FilesInv, FilesCovered, CallCovered
<1>6. SeedInv'
  <2>1. ASSUME Undisturbed, Kept # {}, c.at = "save"
        PROVE  Seeds(c.byType)
    <3>1. buffer.readable /\ Seeds(buffer.byType) /\ proc[p].type \in Unfrozen
      BY <1>1, <2>1, CallKnown
    <3>2. Kept \subseteq Types \ {proc[p].type}
      BY <3>1, DetectionAssumption DEF Kept
    <3> QED
      BY <1>1, <1>2, <1>3, <2>1, <3>1, <3>2, AdoptedBuffer DEF Seeds
  <2> QED
    BY <1>1, <1>3, <2>1, CallKnown, SeedGoesOn DEF FilesInv, Undisturbed
<1> QED
  BY <1>4, <1>5, <1>6 DEF FilesInv

LEMMA CrashFiles ==
    ASSUME FilesInv, NEW p \in Procs, Crash(p)
    PROVE  FilesInv'
<1>1. /\ Goto(p, Idle) /\ proc[p].at # "idle" /\ crashes' = crashes + 1
      /\ UNCHANGED <<model, buffer, overlaps>>
  BY DEF Crash
<1>2. crashes \in Nat
  BY DEF FilesInv, IsWork
<1>3. IsWork'
  BY <1>1, IdleIsCall, WorkGoesOn DEF FilesInv, IsWork
<1>4. CountInv'
  BY <1>1, <1>2, IdleIsCall, CallKnown, CountGoesOn DEF FilesInv, FilesCovered
<1>5. SeedInv'
  BY <1>1, <1>2, IdleIsCall, SeedGoesOn DEF FilesInv
<1> QED
  BY <1>3, <1>4, <1>5 DEF FilesInv

\* A call that begins while another works ends what is said of calls that follow
\* one another.
LEMMA BeginFiles ==
    ASSUME FilesInv, NEW p \in Procs, NEW t \in Types, NEW shape, Begin(p, t, shape)
    PROVE  FilesInv'
<1> DEFINE c == [Idle EXCEPT !.at = "model", !.type = t, !.shape = shape]
<1>1. IsCall(c) /\ c.at = "model"
  <2>1. /\ {"at", "type", "byType", "pending"} \subseteq DOMAIN c
        /\ c.at = "model" /\ c.type = t /\ c.byType = NoBuffer /\ c.pending = 0
    BY DEF Idle
  <2> HIDE DEF c
  <2> QED
    BY <2>1, EmptyBuffer DEF IsCall
<1>2. /\ Goto(p, c) /\ UNCHANGED <<model, buffer, crashes>>
      /\ overlaps' = overlaps + IF Busy = {} THEN 0 ELSE 1
  BY DEF Begin
<1> HIDE DEF c
<1>3. /\ proc' = [q \in Procs |-> proc'[q]]
      /\ proc'[p] = c
      /\ \A q \in Procs : q # p => proc'[q] = proc[q]
  BY <1>2, Moves DEF FilesInv
<1>4. overlaps' \in Nat /\ (overlaps' = 0 => overlaps = 0 /\ Busy = {})
  BY <1>2 DEF FilesInv, IsWork
<1>5. overlaps' = 0 => \A q \in Procs : proc[q].at = "idle"
  BY <1>4 DEF Busy
<1>6. IsWork'
  <2>1. \A q \in Procs : IsCall(proc'[q])
    BY <1>1, <1>3 DEF FilesInv, IsWork
  <2>2. overlaps' = 0 => Busy' \subseteq {p}
    BY <1>3, <1>5 DEF Busy
  <2> QED
    BY <1>2, <1>3, <1>4, <2>1, <2>2 DEF FilesInv, IsWork, IsCall, IsBuffer
<1>7. CountInv'
  BY <1>1, <1>2, <1>3, <1>4, <1>5
     DEF FilesInv, CountInv, CallCovered, FilesCovered, Somewhere
<1>8. SeedInv'
  BY <1>1, <1>2, <1>3, <1>4, <1>5 DEF FilesInv, SeedInv, Undisturbed, Somewhere
<1> QED
  BY <1>6, <1>7, <1>8 DEF FilesInv

LEMMA NextFiles == FilesInv /\ [Next]_vars => FilesInv'
<1> SUFFICES ASSUME FilesInv, [Next]_vars PROVE FilesInv'
  OBVIOUS
<1>1. CASE UNCHANGED vars
  BY <1>1 DEF vars, FilesInv, IsWork, IsCall, IsBuffer, CountInv, SeedInv, Busy,
     FilesCovered, CallCovered, Somewhere, Undisturbed
<1>2. ASSUME NEW p \in Procs,
             \/ \E t \in Types, shape \in Shapes : Begin(p, t, shape)
             \/ GetOrTrainIforest(p)
             \/ Crash(p)
      PROVE  FilesInv'
  BY <1>2, BeginFiles, LoadFiles, JudgeFiles, TruncateBufferFiles,
     SaveTrainingBufferFiles, TruncateModelFiles, SaveModelFiles, ResetCountFiles,
     CrashFiles DEF GetOrTrainIforest
<1> QED BY <1>1, <1>2 DEF Next

LEMMA InitFiles == Init => FilesInv
<1> SUFFICES ASSUME Init PROVE FilesInv
  OBVIOUS
<1>1. /\ \A p \in Procs : proc[p] = Idle
      /\ proc = [p \in Procs |-> proc[p]]
      /\ crashes = 0 /\ overlaps = 0 /\ Busy = {}
  <2>1. \A p \in Procs : proc[p] = Idle
    BY DEF Init
  <2> QED
    BY <2>1, IdleIsCall DEF Init, Busy
<1>2. IsBuffer(SeedBuffer)
  <2> DEFINE W == {Seed(u) : u \in Types}
  <2>1. ASSUME NEW t \in Types
        PROVE  (IF t \in Seeded THEN <<Seed(t)>> ELSE <<>>) \in Seq(W)
    <3>1. Seed(t) \in W
      OBVIOUS
    <3> HIDE DEF W
    <3> QED
      BY <3>1
  <2> HIDE DEF W
  <2>2. SeedBuffer \in [Types -> Seq(W)]
    BY <2>1 DEF SeedBuffer
  <2> QED
    BY <2>2 DEF IsBuffer
<1>3. \A t \in Seeded : SeedBuffer[t] = <<Seed(t)>> /\ Seed(t) \in Windows(SeedBuffer)
  <2> SUFFICES ASSUME NEW t \in Seeded
               PROVE  SeedBuffer[t] = <<Seed(t)>> /\ Seed(t) \in Windows(SeedBuffer)
    OBVIOUS
  <2>1. t \in Types /\ SeedBuffer[t] = <<Seed(t)>>
    BY DetectionAssumption DEF SeedBuffer
  <2>2. ToSet(<<Seed(t)>>) = {Seed(t)}
    BY DEF ToSet
  <2> QED
    BY <2>1, <2>2 DEF Windows
<1>4. CASE Seeded = {}
  <2>1. /\ model.readable = FALSE /\ buffer.readable = FALSE
        /\ buffer.byType = NoBuffer /\ buffer.pending = 0
    BY <1>4, FileFields DEF Init
  <2>2. IsWork
    <3>1. \A p \in Procs : IsCall(proc[p])
      BY <1>1, IdleIsCall
    <3>2. model.readable \in BOOLEAN /\ buffer.readable \in BOOLEAN
      BY <2>1
    <3>4. buffer.pending \in Nat
      BY <2>1
    <3>5. IsBuffer(buffer.byType)
      BY EmptyBuffer, <2>1, Zenon
    <3>3. /\ overlaps \in Nat /\ crashes \in Nat
          /\ \A p, q \in Busy : p = q
      BY <1>1
    <3> QED
      BY <1>1, <3>1, <3>2, <3>3, <3>4, <3>5, Zenon DEF IsWork
  <2>3. CountInv
    BY <1>1, <2>1, IdleIsCall DEF CountInv, CallCovered, FilesCovered
  <2>4. SeedInv
    BY <1>4 DEF SeedInv, Kept
  <2> QED
    BY <2>2, <2>3, <2>4 DEF FilesInv
<1>5. CASE Seeded # {}
  <2>1. /\ model.readable = TRUE /\ model.windows = Windows(SeedBuffer)
        /\ buffer.readable = TRUE /\ buffer.byType = SeedBuffer /\ buffer.pending = 0
    BY <1>5, FileFields DEF Init
  <2>2. FilesCovered
    BY <2>1, CoveredByAll DEF FilesCovered
  <2>3. IsWork
    <3>1. \A p \in Procs : IsCall(proc[p])
      BY <1>1, IdleIsCall
    <3>2. model.readable \in BOOLEAN /\ buffer.readable \in BOOLEAN
      BY <2>1
    <3>4. buffer.pending \in Nat
      BY <2>1
    <3>5. IsBuffer(buffer.byType)
      BY <1>2, <2>1, Zenon
    <3>3. /\ overlaps \in Nat /\ crashes \in Nat
          /\ \A p, q \in Busy : p = q
      BY <1>1
    <3> QED
      BY <1>1, <3>1, <3>2, <3>3, <3>4, <3>5, Zenon DEF IsWork
  <2>4. CountInv
    BY <1>1, <2>1, <2>2, IdleIsCall DEF CountInv, CallCovered
  <2>5. SeedInv
    BY <1>1, <1>3, <2>1, IdleIsCall DEF SeedInv, Kept, Seeds
  <2> QED
    BY <2>3, <2>4, <2>5 DEF FilesInv
<1> QED BY <1>4, <1>5

\* One call after the other, one of them killed at most: no window of the buffer that
\* the forest was not fitted on is missing from the count
\* (_save_training_buffer, _fit_and_cache_unified).
THEOREM NoneForgotten == Spec => []UnlearnedAreCounted
<1>1. FilesInv => UnlearnedAreCounted
  <2> SUFFICES ASSUME FilesInv, overlaps = 0, crashes <= 1, Busy = {},
                      buffer.readable, model.readable
               PROVE  Cardinality(Windows(buffer.byType) \ model.windows) <= buffer.pending
    BY DEF UnlearnedAreCounted
  <2>1. ~Somewhere({"reset"})
    BY DEF Busy, Somewhere
  <2> QED
    BY <2>1 DEF FilesInv, CountInv, FilesCovered, Covered
<1> QED BY <1>1, InitFiles, NextFiles, PTL DEF Spec

\* Undisturbed calls keep the mock windows of the frozen types in both files
\* (_get_or_train_iforest returns before it touches the buffer).
THEOREM SeedStays == Spec => []FrozenSeedStays
<1>1. FilesInv => FrozenSeedStays
  BY DEF FilesInv, SeedInv, FrozenSeedStays, Kept, Seeds
<1> QED BY <1>1, InitFiles, NextFiles, PTL DEF Spec

-----------------------------------------------------------------------------
(***************************************************************************)
(* The two assemblies end alike. How a run is stopped and taken up again   *)
(* does not matter because a step and the number of rollbacks determine    *)
(* everything else a run has in its state.                                 *)
(***************************************************************************)
States == [anomaly_flag : BOOLEAN, action_executed : BOOLEAN, succeeded : BOOLEAN,
           qa_passed : BOOLEAN, rollback_count : Nat, approved : BOOLEAN]

Gate   == {"approval_gate", "saving", "paused"}
Ending == {"logging", "logged", "over"}
Other  == {"off", "detection", "classification", "decision", "action", "qa", "rollback",
           "raised", "dead"}
Points == [step : Gate \cup Ending \cup Other, state : States, attempt : Nat]

\* What a run ends with, whatever it went through.
Outcome == [anomaly_flag    |-> input.anomalous,
            action_executed |-> input.anomalous,
            succeeded       |-> input.anomalous /\ input.needs <= MAX_RETRY,
            qa_passed       |-> input.anomalous /\ input.needs <= MAX_RETRY,
            rollback_count  |-> IF input.anomalous /\ input.needs <= MAX_RETRY
                                  THEN input.needs
                                  ELSE IF input.anomalous THEN MAX_RETRY ELSE 0,
            approved        |-> FALSE]

\* Before the action nothing was done; between the rollbacks every try before the last
\* one was too early; at the end there is the outcome.
Untouched(s) == /\ ~s.action_executed /\ ~s.succeeded /\ ~s.qa_passed
                /\ s.rollback_count = 0

Tried(s) == /\ s.rollback_count <= MAX_RETRY /\ s.rollback_count <= input.needs
            /\ s.anomaly_flag /\ input.anomalous /\ ~s.qa_passed

AsFar(p) ==
    LET s == p.state IN
    /\ p.step \in {"off", "detection"} => Untouched(s) /\ ~s.anomaly_flag
    /\ p.step \in {"classification", "decision"} \cup Gate =>
          Untouched(s) /\ s.anomaly_flag /\ input.anomalous
    /\ p.step = "action" =>
          Tried(s) /\ ~s.succeeded /\ (s.action_executed <=> s.rollback_count > 0)
    /\ p.step = "qa" =>
          Tried(s) /\ s.action_executed /\ (s.succeeded <=> s.rollback_count >= input.needs)
    /\ p.step = "rollback" =>
          /\ Tried(s) /\ s.action_executed /\ ~s.succeeded
          /\ s.rollback_count < MAX_RETRY /\ s.rollback_count < input.needs
    /\ p.step \in Ending => [s EXCEPT !.approved = FALSE] = Outcome

\* Of a run that asks, only a resumed one comes to the action.
Asked(p) ==
    input.requires_approval /\ (p.step \in {"action", "qa"} \/ p.state.action_executed)
        => p.state.approved

Good(p) == p \in Points /\ AsFar(p)

Inv ==
    /\ input \in Inputs
    /\ worker \in [Workers -> Points]
    /\ \A w \in Workers :
          AsFar(worker[w]) /\ Asked(worker[w]) /\ worker[w].step # "rollback"
    /\ checkpoint \in {NoFile, Torn} \/
          /\ checkpoint \in Points /\ checkpoint.step = "action"
          /\ AsFar(checkpoint) /\ Untouched(checkpoint.state)
    /\ Good(twin) /\ ~twin.state.approved /\ twin.step \notin Gate

----------------------------------------------------------------------------
(* What the steps do to a state.                                           *)

LEMMA AtGood ==
    ASSUME NEW step \in Gate \cup Ending \cup Other, NEW s \in States
    PROVE  /\ At(step, s) \in Points /\ At(step, s).step = step /\ At(step, s).state = s
BY DEF At, Points

LEMMA FreshState == Fresh \in States /\ Untouched(Fresh) /\ ~Fresh.anomaly_flag /\ ~Fresh.approved
BY DEF Fresh, States, Untouched

LEMMA Detected ==
    ASSUME input \in Inputs, NEW s \in States
    PROVE  LET d == run_detection(s) IN
           /\ d \in States /\ d.anomaly_flag = input.anomalous
           /\ d.action_executed = s.action_executed /\ d.succeeded = s.succeeded
           /\ d.qa_passed = s.qa_passed /\ d.rollback_count = s.rollback_count
           /\ d.approved = s.approved
BY DEF run_detection, States, Inputs

LEMMA Succeeds ==
    ASSUME NEW s \in States, NEW b \in BOOLEAN,
           NEW d, d = [s EXCEPT !.action_executed = TRUE, !.succeeded = b]
    PROVE  /\ d \in States /\ d.action_executed /\ d.succeeded = b
           /\ d.anomaly_flag = s.anomaly_flag /\ d.qa_passed = s.qa_passed
           /\ d.rollback_count = s.rollback_count /\ d.approved = s.approved
BY DEF States

LEMMA Acted ==
    ASSUME input \in Inputs, NEW s \in States
    PROVE  LET d == run_action(s) IN
           /\ d \in States /\ d.action_executed
           /\ d.succeeded <=> s.rollback_count >= input.needs
           /\ d.anomaly_flag = s.anomaly_flag /\ d.qa_passed = s.qa_passed
           /\ d.rollback_count = s.rollback_count /\ d.approved = s.approved
<1> DEFINE b == s.rollback_count >= input.needs
           d == run_action(s)
<1>1. b \in BOOLEAN /\ d = [s EXCEPT !.action_executed = TRUE, !.succeeded = b]
  BY DEF run_action, States, Inputs, Needs
<1> HIDE DEF d
<1>2. b <=> s.rollback_count >= input.needs
  OBVIOUS
<1> HIDE DEF b
<1>3. /\ d \in States /\ d.action_executed /\ d.succeeded = b
      /\ d.anomaly_flag = s.anomaly_flag /\ d.qa_passed = s.qa_passed
      /\ d.rollback_count = s.rollback_count /\ d.approved = s.approved
  BY <1>1, Succeeds
<1> QED BY <1>1, <1>2, <1>3 DEF d

LEMMA RolledBack ==
    ASSUME NEW s \in States
    PROVE  LET d == rolled_back(s) IN
           /\ d \in States /\ d.rollback_count = s.rollback_count + 1
           /\ d.anomaly_flag = s.anomaly_flag /\ d.action_executed = s.action_executed
           /\ d.succeeded = s.succeeded /\ d.qa_passed = s.qa_passed
           /\ d.approved = s.approved
BY DEF rolled_back, States

\* Apart from the approval, five fields make the outcome.
LEMMA IsOutcome ==
    ASSUME NEW s \in States,
           s.anomaly_flag = Outcome.anomaly_flag, s.action_executed = Outcome.action_executed,
           s.succeeded = Outcome.succeeded, s.qa_passed = Outcome.qa_passed,
           s.rollback_count = Outcome.rollback_count
    PROVE  [s EXCEPT !.approved = FALSE] = Outcome
<1> DEFINE u == [s EXCEPT !.approved = FALSE]
<1>1. /\ u \in States /\ u.approved = FALSE
      /\ u.anomaly_flag = s.anomaly_flag /\ u.action_executed = s.action_executed
      /\ u.succeeded = s.succeeded /\ u.qa_passed = s.qa_passed
      /\ u.rollback_count = s.rollback_count
  BY DEF States
<1> HIDE DEF u
<1>2. u = [anomaly_flag |-> u.anomaly_flag, action_executed |-> u.action_executed,
           succeeded |-> u.succeeded, qa_passed |-> u.qa_passed,
           rollback_count |-> u.rollback_count, approved |-> u.approved]
  BY <1>1 DEF States
<1>3. Outcome = [anomaly_flag    |-> Outcome.anomaly_flag,
                 action_executed |-> Outcome.action_executed,
                 succeeded       |-> Outcome.succeeded,
                 qa_passed       |-> Outcome.qa_passed,
                 rollback_count  |-> Outcome.rollback_count,
                 approved        |-> FALSE]
  BY DEF Outcome
<1>4. u = Outcome
  BY <1>1, <1>2, <1>3
<1> QED BY <1>4 DEF u

\* Where a state that was not acted on may stand, and what the other steps ask of it.
LEMMA EarlyPoint ==
    ASSUME NEW s \in States, Untouched(s), s.anomaly_flag, input.anomalous,
           NEW step \in {"classification", "decision"} \cup Gate
    PROVE  Good(At(step, s))
<1>1. At(step, s) \in Points /\ At(step, s).step = step /\ At(step, s).state = s
  BY AtGood DEF Other
<1> HIDE DEF At
<1> QED BY <1>1 DEF Good, AsFar, Gate, Ending

LEMMA ActionPoint ==
    ASSUME NEW s \in States, Tried(s), ~s.succeeded,
           s.action_executed <=> s.rollback_count > 0
    PROVE  Good(At("action", s))
<1>1. At("action", s) \in Points /\ At("action", s).step = "action" /\ At("action", s).state = s
  BY AtGood DEF Other
<1> QED BY <1>1 DEF Good, AsFar, Gate, Ending

LEMMA QaPoint ==
    ASSUME NEW s \in States, Tried(s), s.action_executed,
           s.succeeded <=> s.rollback_count >= input.needs
    PROVE  Good(At("qa", s))
<1>1. At("qa", s) \in Points /\ At("qa", s).step = "qa" /\ At("qa", s).state = s
  BY AtGood DEF Other
<1> QED BY <1>1 DEF Good, AsFar, Gate, Ending

LEMMA RollbackPoint ==
    ASSUME NEW s \in States, Tried(s), s.action_executed, ~s.succeeded,
           s.rollback_count < MAX_RETRY, s.rollback_count < input.needs
    PROVE  Good(At("rollback", s))
<1>1. /\ At("rollback", s) \in Points /\ At("rollback", s).step = "rollback"
      /\ At("rollback", s).state = s
  BY AtGood DEF Other
<1> QED BY <1>1 DEF Good, AsFar, Gate, Ending

LEMMA EndPoint ==
    ASSUME NEW s \in States, [s EXCEPT !.approved = FALSE] = Outcome, NEW step \in Ending
    PROVE  Good(At(step, s))
<1>1. At(step, s) \in Points /\ At(step, s).step = step /\ At(step, s).state = s
  BY AtGood DEF Other
<1> QED BY <1>1 DEF Good, AsFar, Gate, Ending

LEMMA StoppedPoint ==
    ASSUME NEW s \in States, NEW step \in {"raised", "dead"}
    PROVE  Good(At(step, s))
<1>1. At(step, s) \in Points /\ At(step, s).step = step /\ At(step, s).state = s
  BY AtGood DEF Other
<1> QED BY <1>1 DEF Good, AsFar, Gate, Ending

\* The steps both assemblies share go on to a state that fits its step.
LEMMA StraightGood ==
    ASSUME input \in Inputs, NEW p, Good(p), IsStraight(p), NEW asks \in BOOLEAN
    PROVE  \E step, s :
             /\ Straight(p, asks) = At(step, s) /\ Good(At(step, s))
             /\ s.approved = p.state.approved
             /\ s.action_executed = p.state.action_executed
             /\ step \in {"classification", "logging", "decision", "approval_gate",
                          "action", "logged"}
             /\ step = "approval_gate" => asks
             /\ step = "action" => ~asks
<1>0. p.state \in States
  BY DEF Good, Points
<1>1. CASE p.step = "detection"
  <2> DEFINE s == run_detection(p.state)
  <2>1. /\ s \in States /\ s.anomaly_flag = input.anomalous
        /\ s.action_executed = p.state.action_executed /\ s.succeeded = p.state.succeeded
        /\ s.qa_passed = p.state.qa_passed /\ s.rollback_count = p.state.rollback_count
        /\ s.approved = p.state.approved
    BY <1>0, Detected
  <2>2. Untouched(p.state)
    BY <1>1 DEF Good, AsFar
  <2>3. Straight(p, asks) = At(IF s.anomaly_flag THEN "classification" ELSE "logging", s)
    BY <1>1 DEF Straight
  <2> HIDE DEF s
  <2>4. Untouched(s)
    BY <2>1, <2>2 DEF Untouched
  <2>5. CASE input.anomalous
    <3>1. Straight(p, asks) = At("classification", s)
      BY <2>1, <2>3, <2>5
    <3>2. Good(At("classification", s))
      BY <2>1, <2>4, <2>5, EarlyPoint
    <3> QED BY <2>1, <3>1, <3>2
  <2>6. CASE ~input.anomalous
    <3>1. Straight(p, asks) = At("logging", s)
      BY <2>1, <2>3, <2>6
    <3>2. /\ s.anomaly_flag = Outcome.anomaly_flag
          /\ s.action_executed = Outcome.action_executed
          /\ s.succeeded = Outcome.succeeded /\ s.qa_passed = Outcome.qa_passed
          /\ s.rollback_count = Outcome.rollback_count
      BY <2>1, <2>4, <2>6 DEF Untouched, Outcome, Inputs, States
    <3>3. Good(At("logging", s))
      BY <2>1, <3>2, IsOutcome, EndPoint DEF Ending
    <3> QED BY <2>1, <3>1, <3>3
  <2> QED BY <2>5, <2>6
<1>2. CASE p.step = "classification"
  <2>1. Straight(p, asks) = At("decision", p.state)
    BY <1>2 DEF Straight
  <2>2. Untouched(p.state) /\ p.state.anomaly_flag /\ input.anomalous
    BY <1>2 DEF Good, AsFar
  <2>3. Good(At("decision", p.state))
    BY <1>0, <2>2, EarlyPoint
  <2> QED BY <2>1, <2>3
<1>3. CASE p.step = "decision"
  <2>1. Straight(p, asks) = At(IF asks THEN "approval_gate" ELSE "action", p.state)
    BY <1>3 DEF Straight
  <2>2. Untouched(p.state) /\ p.state.anomaly_flag /\ input.anomalous
    BY <1>3 DEF Good, AsFar
  <2>3. CASE asks
    <3>1. Good(At("approval_gate", p.state))
      BY <1>0, <2>2, EarlyPoint DEF Gate
    <3> QED BY <2>1, <2>3, <3>1
  <2>4. CASE ~asks
    <3>1. Tried(p.state) /\ ~p.state.succeeded
          /\ (p.state.action_executed <=> p.state.rollback_count > 0)
      BY <2>2 DEF Tried, Untouched, MAX_RETRY, Inputs, Needs
    <3>2. Good(At("action", p.state))
      BY <1>0, <3>1, ActionPoint
    <3> QED BY <2>1, <2>4, <3>2
  <2> QED BY <2>3, <2>4
<1>4. CASE p.step = "logging"
  <2>1. Straight(p, asks) = At("logged", p.state)
    BY <1>4 DEF Straight
  <2>2. [p.state EXCEPT !.approved = FALSE] = Outcome
    BY <1>4 DEF Good, AsFar, Ending
  <2>3. Good(At("logged", p.state))
    BY <1>0, <2>2, EndPoint DEF Ending
  <2> QED BY <2>1, <2>3
<1> QED BY <1>1, <1>2, <1>3, <1>4 DEF IsStraight

\* An attempt ends in the check, in the next attempt or in an exception.
LEMMA AttemptsGood ==
    ASSUME input \in Inputs, NEW p, Good(p), p.step = "action", NEW q \in Attempts(p)
    PROVE  /\ Good(q) /\ q.state.approved = p.state.approved
           /\ q.step \in {"qa", "action", "raised"}
<1>0. /\ p \in Points /\ p.state \in States /\ Tried(p.state)
      /\ AsFar(p)
  BY DEF Good, AsFar, Points
<1>1. CASE q = At("qa", run_action(p.state))
  <2> DEFINE s == run_action(p.state)
  <2>1. /\ s \in States /\ s.action_executed
        /\ s.succeeded <=> s.rollback_count >= input.needs
        /\ s.approved = p.state.approved
    BY <1>0, Acted
  <2>2. Tried(s)
    BY <1>0, Acted DEF Tried
  <2> HIDE DEF s
  <2>3. q = At("qa", s)
    BY <1>1 DEF s
  <2>4. Good(q)
    BY <2>1, <2>2, <2>3, QaPoint
  <2> QED BY <2>1, <2>3, <2>4 DEF At
<1>2. CASE q = [p EXCEPT !.attempt = @ + 1]
  <2>1. q \in Points /\ q.step = "action" /\ q.state = p.state
    BY <1>0, <1>2 DEF Points
  <2> QED BY <1>0, <2>1 DEF Good, AsFar, Gate, Ending
<1>3. CASE q = At("raised", p.state)
  BY <1>0, <1>3, StoppedPoint DEF At
<1> QED BY <1>1, <1>2, <1>3 DEF Attempts

\* The check ends a run with the outcome, or finds a reason to roll back.
LEMMA QaGood ==
    ASSUME input \in Inputs, NEW p, Good(p), p.step = "qa",
           NEW s, s = run_qa(p.state)
    PROVE  /\ s \in States /\ s.approved = p.state.approved /\ s.action_executed
           /\ ~s.qa_passed /\ s.rollback_count < MAX_RETRY =>
                /\ Good(At("rollback", s))
                /\ Good(At("action", rolled_back(s)))
                /\ rolled_back(s).approved = s.approved
           /\ ~(~s.qa_passed /\ s.rollback_count < MAX_RETRY) => Good(At("logging", s))
<1>1. /\ p.state \in States /\ Tried(p.state) /\ p.state.action_executed
      /\ p.state.succeeded <=> p.state.rollback_count >= input.needs
      /\ p.state.rollback_count \in Nat /\ input.needs \in {0, 1, 3}
  BY DEF Good, AsFar, Points, States, Inputs, Needs
<1>2. /\ s \in States /\ s.approved = p.state.approved /\ s.action_executed
      /\ s.qa_passed = p.state.succeeded /\ s.succeeded = p.state.succeeded
      /\ s.rollback_count = p.state.rollback_count /\ s.anomaly_flag = p.state.anomaly_flag
  BY <1>1 DEF run_qa, States
<1>3. ASSUME ~s.qa_passed, s.rollback_count < MAX_RETRY
      PROVE  /\ Good(At("rollback", s)) /\ Good(At("action", rolled_back(s)))
             /\ rolled_back(s).approved = s.approved
  <2>1. Tried(s) /\ ~s.succeeded /\ s.rollback_count < input.needs
    BY <1>1, <1>2, <1>3 DEF Tried, MAX_RETRY
  <2>2. Good(At("rollback", s))
    BY <1>2, <1>3, <2>1, RollbackPoint
  <2> DEFINE r == rolled_back(s)
  <2>3. /\ r \in States /\ r.rollback_count = s.rollback_count + 1
        /\ r.anomaly_flag = s.anomaly_flag /\ r.action_executed = s.action_executed
        /\ r.succeeded = s.succeeded /\ r.qa_passed = s.qa_passed
        /\ r.approved = s.approved
    BY <1>2, RolledBack
  <2> HIDE DEF r
  <2>4. Tried(r) /\ ~r.succeeded /\ (r.action_executed <=> r.rollback_count > 0)
    BY <1>1, <1>2, <1>3, <2>1, <2>3 DEF Tried, MAX_RETRY
  <2>5. Good(At("action", r))
    BY <2>3, <2>4, ActionPoint
  <2> QED BY <2>2, <2>3, <2>5 DEF r
<1>4. ASSUME ~(~s.qa_passed /\ s.rollback_count < MAX_RETRY)
      PROVE  Good(At("logging", s))
  <2>1. input.anomalous /\ s.anomaly_flag /\ s.action_executed
    BY <1>1, <1>2 DEF Tried
  <2>2. (s.succeeded <=> input.needs <= MAX_RETRY) /\ (s.qa_passed <=> s.succeeded)
    BY <1>1, <1>2, <1>4 DEF Tried, MAX_RETRY
  <2>3. s.rollback_count = IF input.needs <= MAX_RETRY THEN input.needs ELSE MAX_RETRY
    BY <1>1, <1>2, <1>4 DEF Tried, MAX_RETRY
  <2>4. /\ s.anomaly_flag = Outcome.anomaly_flag
        /\ s.action_executed = Outcome.action_executed
        /\ s.rollback_count = Outcome.rollback_count
    BY <1>2, <2>1, <2>3 DEF Outcome, States, Inputs
  <2>5. s.succeeded \in BOOLEAN /\ s.qa_passed \in BOOLEAN
    BY <1>2 DEF States
  <2>6. s.succeeded = Outcome.succeeded /\ s.qa_passed = Outcome.qa_passed
    BY <2>1, <2>2, <2>5 DEF Outcome
  <2> QED BY <1>2, <2>4, <2>6, IsOutcome, EndPoint DEF Ending
<1> QED BY <1>2, <1>3, <1>4

----------------------------------------------------------------------------
(* The invariant.                                                          *)

LEMMA InitInv == ComparisonInit => Inv
<1> SUFFICES ASSUME ComparisonInit PROVE Inv
  OBVIOUS
<1>1. Off \in Points /\ Off.step = "off" /\ Off.state = Fresh
  BY AtGood, FreshState DEF Off, Other
<1>2. AsFar(Off) /\ Asked(Off)
  BY <1>1, FreshState DEF AsFar, Asked, Untouched, Gate, Ending
<1> QED BY <1>1, <1>2, FreshState DEF ComparisonInit, Inv, Good, Gate

\* A step of one process keeps the invariant if the new point fits.
LEMMA GoesInv ==
    ASSUME Inv, NEW w \in Workers, NEW p, Good(p), Asked(p), p.step # "rollback",
           Goes(w, p), UNCHANGED <<input, checkpoint, twin>>
    PROVE  Inv'
<1>1. worker' \in [Workers -> Points] /\ \A v \in Workers : worker'[v] \in {p, worker[v]}
  BY DEF Goes, Good, Inv
<1>2. \A v \in Workers : AsFar(worker'[v]) /\ Asked(worker'[v]) /\ worker'[v].step # "rollback"
  BY <1>1 DEF Inv, Good
<1> QED BY <1>1, <1>2 DEF Inv, Good, AsFar, Asked, Tried, Outcome

\* The same of a step that writes or removes the file.
LEMMA GoesFileInv ==
    ASSUME Inv, NEW w \in Workers, NEW p, Good(p), Asked(p), p.step # "rollback",
           Goes(w, p), UNCHANGED <<input, twin>>,
           \/ checkpoint' \in {NoFile, Torn}
           \/ /\ checkpoint' \in Points /\ checkpoint'.step = "action"
              /\ AsFar(checkpoint') /\ Untouched(checkpoint'.state)
    PROVE  Inv'
<1>1. worker' \in [Workers -> Points] /\ \A v \in Workers : worker'[v] \in {p, worker[v]}
  BY DEF Goes, Good, Inv
<1>2. \A v \in Workers : AsFar(worker'[v]) /\ Asked(worker'[v]) /\ worker'[v].step # "rollback"
  BY <1>1 DEF Inv, Good
<1>3. input' \in Inputs /\ (Good(twin) /\ ~twin.state.approved /\ twin.step \notin Gate)'
  BY DEF Inv, Good, AsFar, Tried, Outcome
<1>4. \A v \in Workers :
        (AsFar(worker[v]) /\ Asked(worker[v]) /\ worker[v].step # "rollback")'
  BY <1>2 DEF AsFar, Asked, Tried, Outcome
<1>5. (checkpoint \in {NoFile, Torn} \/
         /\ checkpoint \in Points /\ checkpoint.step = "action"
         /\ AsFar(checkpoint) /\ Untouched(checkpoint.state))'
  <2>1. CASE checkpoint' \in {NoFile, Torn}
    BY <2>1
  <2>2. CASE /\ checkpoint' \in Points /\ checkpoint'.step = "action"
             /\ AsFar(checkpoint') /\ Untouched(checkpoint'.state)
    <3>1. AsFar(checkpoint)'
      BY <2>2 DEF AsFar, Tried, Outcome, Untouched
    <3>2. Untouched(checkpoint.state)'
      BY <2>2 DEF Untouched
    <3> QED BY <2>2, <3>1, <3>2
  <2> QED BY <2>1, <2>2
<1> QED BY <1>1, <1>3, <1>4, <1>5 DEF Inv

\* The step of one process keeps the invariant.
LEMMA WorkerInv ==
    ASSUME Inv, NEW w \in Workers,
           \/ RunPipeline(w) \/ Step(w) \/ SaveCheckpoint(w) \/ ResumePipeline(w)
           \/ RunAction(w) \/ RunQa(w) \/ DeleteCheckpoint(w) \/ Die(w)
    PROVE  Inv'
<1> DEFINE p == worker[w]
<1>0. /\ input \in Inputs /\ Good(p) /\ Asked(p) /\ p.step # "rollback"
      /\ p.state \in States
  BY DEF Inv, Good, Points
<1>1. CASE RunPipeline(w)
  <2>1. At("detection", Fresh) \in Points /\ At("detection", Fresh).step = "detection"
        /\ At("detection", Fresh).state = Fresh
    BY AtGood, FreshState DEF Other
  <2>2. Good(At("detection", Fresh)) /\ Asked(At("detection", Fresh))
    BY <2>1, FreshState DEF Good, AsFar, Asked, Untouched, Gate, Ending
  <2> QED BY <1>1, <2>1, <2>2, GoesInv DEF RunPipeline
<1>2. CASE Step(w)
  <2>1. input.requires_approval \in BOOLEAN /\ IsStraight(p)
    BY <1>0, <1>2 DEF Inputs, Step
  <2>2. PICK step, s :
          /\ Straight(p, input.requires_approval) = At(step, s) /\ Good(At(step, s))
          /\ s.approved = p.state.approved
          /\ s.action_executed = p.state.action_executed
          /\ step \in {"classification", "logging", "decision", "approval_gate",
                       "action", "logged"}
          /\ step = "approval_gate" => input.requires_approval
          /\ step = "action" => ~input.requires_approval
    BY <1>0, <2>1, StraightGood
  <2>3. At(step, s).step = step /\ At(step, s).state = s
    BY DEF At
  <2>4. Asked(At(step, s)) /\ step # "rollback"
    BY <1>0, <2>2, <2>3 DEF Asked
  <2> QED BY <1>2, <2>2, <2>3, <2>4, GoesInv DEF Step
<1>3. CASE SaveCheckpoint(w)
  <2>1. /\ p.step \in {"approval_gate", "saving"} => Untouched(p.state) /\ p.state.anomaly_flag
        /\ p.step \in {"approval_gate", "saving"} => input.anomalous
    BY <1>0 DEF Good, AsFar, Gate
  <2>2. CASE p.step = "approval_gate"
    <3>1. /\ Good(At("saving", p.state)) /\ At("saving", p.state).step = "saving"
          /\ At("saving", p.state).state = p.state
      BY <1>0, <2>1, <2>2, EarlyPoint DEF At, Gate
    <3>2. Asked(At("saving", p.state))
      BY <1>0, <3>1 DEF Asked
    <3>3. /\ checkpoint' = Torn /\ Goes(w, At("saving", p.state))
          /\ UNCHANGED <<input, twin>>
      BY <1>3, <2>2 DEF SaveCheckpoint
    <3> QED BY <3>1, <3>2, <3>3, GoesFileInv
  <2>3. CASE p.step = "saving"
    <3>1. /\ Good(At("paused", p.state)) /\ At("paused", p.state).step = "paused"
          /\ At("paused", p.state).state = p.state
      BY <1>0, <2>1, <2>3, EarlyPoint DEF At, Gate
    <3>2. Asked(At("paused", p.state))
      BY <1>0, <3>1 DEF Asked
    <3>3. Tried(p.state) /\ ~p.state.succeeded
          /\ (p.state.action_executed <=> p.state.rollback_count > 0)
      BY <1>0, <2>1, <2>3 DEF Tried, Untouched, MAX_RETRY, Inputs, Needs
    <3>4. Good(At("action", p.state)) /\ At("action", p.state).state = p.state
          /\ At("action", p.state).step = "action"
      BY <1>0, <3>3, ActionPoint DEF At
    <3>5. /\ checkpoint' = At("action", p.state) /\ Goes(w, At("paused", p.state))
          /\ UNCHANGED <<input, twin>>
      BY <1>3, <2>3 DEF SaveCheckpoint
    <3> QED BY <2>1, <2>3, <3>1, <3>2, <3>4, <3>5, GoesFileInv DEF Good
  <2> QED BY <1>3, <2>2, <2>3 DEF SaveCheckpoint
<1>4. CASE ResumePipeline(w)
  <2> DEFINE s == [checkpoint.state EXCEPT !.approved = TRUE]
  <2>1. /\ checkpoint.step = "action" /\ Untouched(checkpoint.state)
        /\ checkpoint.state \in States /\ Tried(checkpoint.state)
    BY <1>4 DEF ResumePipeline, Inv, AsFar, Points
  <2>2. /\ s \in States /\ s.approved /\ s.anomaly_flag = checkpoint.state.anomaly_flag
        /\ s.action_executed = checkpoint.state.action_executed
        /\ s.succeeded = checkpoint.state.succeeded /\ s.qa_passed = checkpoint.state.qa_passed
        /\ s.rollback_count = checkpoint.state.rollback_count
    BY <2>1 DEF States
  <2>3. Goes(w, At("action", s)) /\ UNCHANGED <<input, checkpoint, twin>>
    BY <1>4, <2>1 DEF ResumePipeline
  <2> HIDE DEF s
  <2>4. Tried(s) /\ ~s.succeeded /\ (s.action_executed <=> s.rollback_count > 0)
    BY <2>1, <2>2 DEF Tried, Untouched
  <2>5. Good(At("action", s)) /\ At("action", s).state = s /\ At("action", s).step = "action"
    BY <2>2, <2>4, ActionPoint DEF At
  <2>6. Asked(At("action", s))
    BY <2>2, <2>5 DEF Asked
  <2> QED BY <2>3, <2>5, <2>6, GoesInv
<1>5. CASE RunAction(w)
  <2>1. PICK q \in Attempts(p) : Goes(w, q)
    BY <1>5 DEF RunAction
  <2>2. /\ Good(q) /\ q.state.approved = p.state.approved
        /\ q.step \in {"qa", "action", "raised"}
    BY <1>0, <1>5, <2>1, AttemptsGood DEF RunAction
  <2>3. Asked(q)
    BY <1>0, <1>5, <2>2 DEF Asked, RunAction
  <2> QED BY <1>5, <2>1, <2>2, <2>3, GoesInv DEF RunAction
<1>6. CASE RunQa(w)
  <2> DEFINE s == run_qa(p.state)
  <2>1. /\ p.step = "qa" /\ UNCHANGED <<input, checkpoint, twin>>
        /\ Goes(w, IF ~s.qa_passed /\ s.rollback_count < MAX_RETRY
                     THEN At("action", rolled_back(s)) ELSE At("logging", s))
    BY <1>6 DEF RunQa
  <2>2. /\ s \in States /\ s.approved = p.state.approved
        /\ ~s.qa_passed /\ s.rollback_count < MAX_RETRY =>
             Good(At("action", rolled_back(s))) /\ rolled_back(s).approved = s.approved
        /\ ~(~s.qa_passed /\ s.rollback_count < MAX_RETRY) => Good(At("logging", s))
    BY <1>0, <2>1, QaGood
  <2>3. input.requires_approval => s.approved
    BY <1>0, <2>1, <2>2 DEF Asked
  <2> HIDE DEF s
  <2>4. CASE ~s.qa_passed /\ s.rollback_count < MAX_RETRY
    <3>1. /\ At("action", rolled_back(s)).step = "action"
          /\ At("action", rolled_back(s)).state = rolled_back(s)
      BY DEF At
    <3>2. Asked(At("action", rolled_back(s)))
      BY <2>2, <2>3, <2>4, <3>1 DEF Asked
    <3> QED BY <2>1, <2>2, <2>4, <3>1, <3>2, GoesInv
  <2>5. CASE ~(~s.qa_passed /\ s.rollback_count < MAX_RETRY)
    <3>1. At("logging", s).step = "logging" /\ At("logging", s).state = s
      BY DEF At
    <3>2. Asked(At("logging", s))
      BY <2>3, <3>1 DEF Asked
    <3> QED BY <2>1, <2>2, <2>5, <3>1, <3>2, GoesInv
  <2> QED BY <2>4, <2>5
<1>7. CASE DeleteCheckpoint(w)
  <2>1. /\ p.step = "logged" /\ checkpoint' = NoFile /\ Goes(w, At("over", p.state))
        /\ UNCHANGED <<input, twin>>
    BY <1>7 DEF DeleteCheckpoint
  <2>2. [p.state EXCEPT !.approved = FALSE] = Outcome
    BY <1>0, <2>1 DEF Good, AsFar, Ending
  <2>3. /\ Good(At("over", p.state)) /\ At("over", p.state).step = "over"
        /\ At("over", p.state).state = p.state
    BY <1>0, <2>2, EndPoint DEF At, Ending
  <2>4. Asked(At("over", p.state))
    BY <1>0, <2>3 DEF Asked
  <2> QED BY <2>1, <2>3, <2>4, GoesFileInv
<1>8. CASE Die(w)
  <2>1. /\ Good(At("dead", p.state)) /\ At("dead", p.state).step = "dead"
        /\ At("dead", p.state).state = p.state
    BY <1>0, StoppedPoint DEF At
  <2>2. Asked(At("dead", p.state))
    BY <1>0, <2>1 DEF Asked
  <2> QED BY <1>8, <2>1, <2>2, GoesInv DEF Die
<1> QED BY <1>1, <1>2, <1>3, <1>4, <1>5, <1>6, <1>7, <1>8

\* The LangGraph run keeps it, too: it is never approved because nothing asks for it.
LEMMA TwinInv ==
    ASSUME Inv, TwinStep
    PROVE  Inv'
<1>0. input \in Inputs /\ Good(twin) /\ ~twin.state.approved /\ twin.step \notin Gate
      /\ twin.state \in States
  BY DEF Inv, Good, Points
<1>1. Good(twin') /\ ~twin'.state.approved /\ twin'.step \notin Gate
  <2>1. CASE twin = Off /\ twin' = At("detection", Fresh)
    <3>1. /\ twin' \in Points /\ twin'.step = "detection" /\ twin'.state = Fresh
      BY <2>1, AtGood, FreshState DEF Other
    <3> QED BY <3>1, FreshState DEF Good, AsFar, Gate, Ending
  <2>2. CASE IsStraight(twin) /\ twin' = Straight(twin, FALSE)
    <3>1. PICK step, s :
            /\ Straight(twin, FALSE) = At(step, s) /\ Good(At(step, s))
            /\ s.approved = twin.state.approved
            /\ step \in {"classification", "logging", "decision", "approval_gate",
                         "action", "logged"}
            /\ step = "approval_gate" => FALSE
      BY <1>0, <2>2, StraightGood
    <3>2. At(step, s).step = step /\ At(step, s).state = s
      BY DEF At
    <3> QED BY <1>0, <2>2, <3>1, <3>2 DEF Gate
  <2>3. CASE twin.step = "action" /\ twin' \in Attempts(twin)
    BY <1>0, <2>3, AttemptsGood DEF Gate
  <2>4. CASE twin.step = "qa" /\ LET s == run_qa(twin.state) IN twin' = At(qa_router(s), s)
    <3> DEFINE s == run_qa(twin.state)
    <3>1. /\ s.approved = twin.state.approved
          /\ ~s.qa_passed /\ s.rollback_count < MAX_RETRY => Good(At("rollback", s))
          /\ ~(~s.qa_passed /\ s.rollback_count < MAX_RETRY) => Good(At("logging", s))
      BY <1>0, <2>4, QaGood
    <3>2. /\ twin' = At(qa_router(s), s) /\ Good(At(qa_router(s), s))
          /\ qa_router(s) \in {"rollback", "logging"}
      BY <2>4, <3>1 DEF qa_router
    <3> HIDE DEF s
    <3>3. At(qa_router(s), s).step = qa_router(s) /\ At(qa_router(s), s).state = s
      BY DEF At
    <3> QED BY <1>0, <3>1, <3>2, <3>3 DEF Gate
  <2>5. CASE twin.step = "rollback" /\ twin' = At("action", rolled_back(twin.state))
    <3> DEFINE r == rolled_back(twin.state)
    <3>1. /\ Tried(twin.state) /\ twin.state.action_executed /\ ~twin.state.succeeded
          /\ twin.state.rollback_count < MAX_RETRY
          /\ twin.state.rollback_count < input.needs
      BY <1>0, <2>5 DEF Good, AsFar
    <3>2. /\ r \in States /\ r.rollback_count = twin.state.rollback_count + 1
          /\ r.anomaly_flag = twin.state.anomaly_flag
          /\ r.action_executed = twin.state.action_executed
          /\ r.succeeded = twin.state.succeeded /\ r.qa_passed = twin.state.qa_passed
          /\ r.approved = twin.state.approved
      BY <1>0, RolledBack
    <3>3. twin' = At("action", r)
      BY <2>5
    <3> HIDE DEF r
    <3>4. twin.state.rollback_count \in Nat /\ input.needs \in {0, 1, 3}
      BY <1>0 DEF States, Inputs, Needs
    <3>5. Tried(r) /\ ~r.succeeded /\ (r.action_executed <=> r.rollback_count > 0)
      BY <3>1, <3>2, <3>4 DEF Tried, MAX_RETRY
    <3>6. Good(At("action", r)) /\ At("action", r).state = r /\ At("action", r).step = "action"
      BY <3>2, <3>5, ActionPoint DEF At
    <3> QED BY <1>0, <3>2, <3>3, <3>6 DEF Gate
  <2>6. CASE twin.step = "logged" /\ twin' = At("over", twin.state)
    <3>1. [twin.state EXCEPT !.approved = FALSE] = Outcome
      BY <1>0, <2>6 DEF Good, AsFar, Ending
    <3>2. /\ Good(At("over", twin.state)) /\ At("over", twin.state).step = "over"
          /\ At("over", twin.state).state = twin.state
      BY <1>0, <3>1, EndPoint DEF At, Ending
    <3> QED BY <1>0, <2>6, <3>2 DEF Gate
  <2> QED BY <2>1, <2>2, <2>3, <2>4, <2>5, <2>6 DEF TwinStep
<1> QED BY <1>1 DEF TwinStep, Inv, Good, AsFar, Asked, Tried, Outcome

LEMMA NextInv == Inv /\ [ComparisonNext]_comparisonVars => Inv'
<1> SUFFICES ASSUME Inv, [ComparisonNext]_comparisonVars PROVE Inv'
  OBVIOUS
<1>1. CASE ComparisonNext
  BY <1>1, WorkerInv, TwinInv DEF ComparisonNext
<1>2. CASE UNCHANGED comparisonVars
  BY <1>2 DEF comparisonVars, Inv, Good, AsFar, Asked, Tried, Outcome
<1> QED BY <1>1, <1>2

LEMMA InvEndsAlike == Inv => EndsAlike
<1> SUFFICES ASSUME Inv, NEW w \in Workers
             PROVE  LET s == worker[w].state IN
                    /\ worker[w].step = "over" /\ twin.step = "over" =>
                          [s EXCEPT !.approved = FALSE] = twin.state
                    /\ s.action_executed /\ input.requires_approval => s.approved
  BY DEF EndsAlike
<1>1. worker[w].state.action_executed /\ input.requires_approval => worker[w].state.approved
  BY DEF Inv, Asked
<1>2. ASSUME worker[w].step = "over", twin.step = "over"
      PROVE  [worker[w].state EXCEPT !.approved = FALSE] = twin.state
  <2>1. /\ [worker[w].state EXCEPT !.approved = FALSE] = Outcome
        /\ [twin.state EXCEPT !.approved = FALSE] = Outcome
    BY <1>2 DEF Inv, Good, AsFar, Ending
  <2>2. twin.state \in States /\ twin.state.approved = FALSE
    BY DEF Inv, Good, Points, States
  <2>3. [twin.state EXCEPT !.approved = FALSE] = twin.state
    BY <2>2 DEF States
  <2> QED BY <2>1, <2>3
<1> QED BY <1>1, <1>2

----------------------------------------------------------------------------
\* However many processes resume the run of the file, and die doing so, a raw run that
\* comes to its end comes to the end of the LangGraph run, and nothing that asks for an
\* approval is done without it (orchestrator.py, persistence.py, langgraph_version/graph.py).
THEOREM AssembliesAgree == ComparisonSpec => []EndsAlike
<1>1. ComparisonSpec => []Inv
  BY InitInv, NextInv, PTL DEF ComparisonSpec
<1> QED BY <1>1, InvEndsAlike, PTL

----------------------------------------------------------------------------
(* One resource under watch.                                               *)

\* The least number that is marked.
LEMMA LeastOf ==
    ASSUME NEW S, S \subseteq Nat, S # {}
    PROVE  \E m \in S : \A n \in S : m <= n
<1>1. IsWellFoundedOn(OpToRel(<, Nat), Nat)
  BY NatLessThanWellFounded
<1>2. PICK m \in S : \A n \in S : ~(<<n, m>> \in OpToRel(<, Nat))
  BY <1>1, WFMin
<1>3. \A n \in S : ~(n < m)
  BY <1>2 DEF OpToRel
<1> QED
  BY <1>3

\* So the least member of a set of numbers is one.
LEMMA LeastMember ==
    ASSUME NEW S, S \subseteq Nat, S # {}
    PROVE  Min(S) \in S /\ \A n \in S : Min(S) <= n
BY LeastOf DEF Min

\* The greater of two numbers.
LEMMA MaxOfTwo ==
    ASSUME NEW a \in Int, NEW b \in Int
    PROVE  Max({a, b}) = IF a >= b THEN a ELSE b
<1> DEFINE m == IF a >= b THEN a ELSE b
<1>1. m \in {a, b} /\ \A y \in {a, b} : m >= y
  OBVIOUS
<1>2. \A x \in {a, b} : (\A y \in {a, b} : x >= y) => x = m
  OBVIOUS
<1> QED
  BY <1>1, <1>2 DEF Max

\* The less of two numbers.
LEMMA MinOfTwo ==
    ASSUME NEW a \in Int, NEW b \in Int
    PROVE  Min({a, b}) = IF a <= b THEN a ELSE b
<1> DEFINE m == IF a <= b THEN a ELSE b
<1>1. m \in {a, b} /\ \A y \in {a, b} : m <= y
  OBVIOUS
<1>2. \A x \in {a, b} : (\A y \in {a, b} : x <= y) => x = m
  OBVIOUS
<1> QED
  BY <1>1, <1>2 DEF Min

\* A sum is known when somebody guesses its partial sums.
LEMMA SumIs ==
    ASSUME NEW s, Len(s) \in Nat, NEW g,
           g = [i \in 0 .. Len(s) |-> IF i = 0 THEN 0 ELSE g[i - 1] + s[i]]
    PROVE  Total(s) = g[Len(s)]
<1> DEFINE N == Len(s)
           Sums(f) == f = [i \in 0 .. N |-> IF i = 0 THEN 0 ELSE f[i - 1] + s[i]]
           upTo == CHOOSE f : Sums(f)
<1>1. Sums(g)
  OBVIOUS
<1>2. Sums(upTo)
  <2> HIDE DEF Sums
  <2> QED
    BY <1>1
<1>3. Total(s) = upTo[N]
  BY DEF Total
<1>4. \A i \in 0 .. N : upTo[i] = IF i = 0 THEN 0 ELSE upTo[i - 1] + s[i]
  <2> HIDE DEF upTo
  <2> QED
    BY <1>2
<1>5. \A i \in 0 .. N : g[i] = IF i = 0 THEN 0 ELSE g[i - 1] + s[i]
  BY <1>1
<1> HIDE DEF upTo, Sums
<1>6. \A i \in 0 .. N : upTo[i] = g[i]
  <2> DEFINE Bad == {i \in 0 .. N : upTo[i] # g[i]}
  <2> SUFFICES ASSUME Bad # {} PROVE FALSE
    OBVIOUS
  <2>0. Bad \subseteq Nat
    OBVIOUS
  <2>1. PICK i \in Bad : \A j \in Bad : i <= j
    <3> HIDE DEF Bad
    <3> QED
      BY <2>0, LeastOf
  <2>2. i # 0
    BY <1>4, <1>5
  <2>3. i - 1 \in 0 .. N /\ i - 1 \notin Bad
    BY <2>1, <2>2
  <2>4. upTo[i - 1] = g[i - 1]
    BY <2>3
  <2> QED
    BY <1>4, <1>5, <2>1, <2>2, <2>4
<1> QED
  BY <1>3, <1>6

\* A series of numbers.
Numbers(s) == Len(s) \in Nat /\ \A i \in 1 .. Len(s) : s[i] \in Nat

\* They have a sum, which is one.
LEMMA SumExists ==
    ASSUME NEW s, Numbers(s)
    PROVE  Total(s) \in Nat
<1> DEFINE N == Len(s)
           Sums(n, f) == f[0] = 0 /\ \A i \in 1 .. n : f[i] = f[i - 1] + s[i]
           Bad == {n \in 0 .. N : ~\E f \in [0 .. n -> Nat] : Sums(n, f)}
<1>1. Bad = {}
  <2> SUFFICES ASSUME Bad # {} PROVE FALSE
    OBVIOUS
  <2>0. Bad \subseteq Nat
    BY DEF Numbers
  <2>1. PICK n \in Bad : \A m \in Bad : n <= m
    <3> HIDE DEF Bad
    <3> QED
      BY <2>0, LeastOf
  <2>2. n # 0
    <3> DEFINE f == [i \in 0 .. 0 |-> 0]
    <3>1. f \in [0 .. 0 -> Nat] /\ Sums(0, f)
      OBVIOUS
    <3> QED
      BY <2>1, <3>1
  <2>3. n - 1 \in 0 .. N /\ n - 1 \notin Bad /\ n \in 0 .. N
    <3>1. n \in 0 .. N
      BY <2>1
    <3> HIDE DEF Bad
    <3> QED
      BY <2>0, <2>1, <2>2, <3>1
  <2>4. PICK f \in [0 .. n - 1 -> Nat] : Sums(n - 1, f)
    BY <2>3
  <2> DEFINE g == [i \in 0 .. n |-> IF i = n THEN f[n - 1] + s[n] ELSE f[i]]
  <2>5. s[n] \in Nat /\ f[n - 1] \in Nat
    BY <2>2, <2>3, <2>4 DEF Numbers
  <2>6. g \in [0 .. n -> Nat]
    BY <2>3, <2>4, <2>5
  <2>7. Sums(n, g)
    BY <2>2, <2>3, <2>4
  <2> QED
    BY <2>1, <2>6, <2>7
<1>2. PICK f \in [0 .. N -> Nat] : Sums(N, f)
  BY <1>1 DEF Numbers
<1>3. f = [i \in 0 .. N |-> IF i = 0 THEN 0 ELSE f[i - 1] + s[i]]
  <2>1. \A i \in 0 .. N : f[i] = IF i = 0 THEN 0 ELSE f[i - 1] + s[i]
    BY <1>2 DEF Numbers
  <2> QED
    BY <1>2, <2>1
<1>4. Total(s) = f[N]
  BY <1>3, SumIs DEF Numbers
<1> QED
  BY <1>2, <1>4 DEF Numbers

\* A series of n points that has a up to its k-th point and b after it.
Jumps(s, n, k, a, b) ==
  /\ n \in Nat /\ Len(s) = n /\ k \in 0 .. n
  /\ \A i \in 1 .. n : s[i] = IF i <= k THEN a ELSE b

\* Its sum.
LEMMA SumOfJump ==
    ASSUME NEW s, NEW N, NEW k, NEW a \in Int, NEW b \in Int, Jumps(s, N, k, a, b)
    PROVE  Total(s) = k * a + (N - k) * b
<1> DEFINE g == [i \in 0 .. N |-> IF i <= k THEN i * a ELSE k * a + (i - k) * b]
<1>1. \A i \in 0 .. N : g[i] = IF i = 0 THEN 0 ELSE g[i - 1] + s[i]
  <2> SUFFICES ASSUME NEW i \in 0 .. N PROVE g[i] = IF i = 0 THEN 0 ELSE g[i - 1] + s[i]
    OBVIOUS
  <2>1. CASE i = 0
    BY <2>1 DEF Jumps
  <2>2. CASE i # 0 /\ i <= k
    <3>1. g[i - 1] = (i - 1) * a /\ s[i] = a /\ g[i] = i * a
      BY <2>2 DEF Jumps
    <3>2. (i - 1) * a + a = i * a
      OBVIOUS
    <3> QED
      BY <2>2, <3>1, <3>2
  <2>3. CASE i # 0 /\ i = k + 1
    <3>1. g[i - 1] = k * a /\ s[i] = b /\ g[i] = k * a + (i - k) * b
      BY <2>3 DEF Jumps
    <3>2. i - k = 1 /\ k \in Nat
      BY <2>3 DEF Jumps
    <3> QED
      BY <2>3, <3>1, <3>2
  <2>4. CASE i # 0 /\ i > k + 1
    <3>1. g[i - 1] = k * a + (i - 1 - k) * b /\ s[i] = b /\ g[i] = k * a + (i - k) * b /\ k \in Nat
      BY <2>4 DEF Jumps
    <3>2. (i - 1 - k) * b + b = (i - k) * b
      BY <3>1
    <3> QED
      BY <2>4, <3>1, <3>2
  <2> QED
    BY <2>1, <2>2, <2>3, <2>4 DEF Jumps
<1>2. g = [i \in 0 .. N |-> IF i = 0 THEN 0 ELSE g[i - 1] + s[i]]
  <2> HIDE DEF g
  <2>1. g = [i \in 0 .. N |-> g[i]]
    BY DEF g
  <2> QED
    BY <1>1, <2>1
<1>3. Total(s) = g[N]
  <2> HIDE DEF g
  <2> QED
    BY <1>2, SumIs DEF Jumps
<1>4. g[N] = k * a + (N - k) * b
  BY DEF Jumps
<1> QED
  BY <1>3, <1>4

\* A window of readings that are numbers.
Series(s) == s \in [1 .. N_POINTS -> Nat]

\* It is one of the series above.
LEMMA SeriesIsSeq ==
    ASSUME NEW s, Series(s)
    PROVE  /\ s \in Seq(Nat) /\ Len(s) = 30 /\ DOMAIN s = 1 .. 30
           /\ \A i \in 1 .. 30 : s[i] \in Nat
           /\ Numbers(s)
<1>1. s \in [1 .. 30 -> Nat]
  BY DEF Series, N_POINTS
<1>2. s \in Seq(Nat)
  BY <1>1, SeqDef
<1>3. Len(s) \in Nat /\ DOMAIN s = 1 .. Len(s)
  BY <1>2, LenProperties
<1>4. Len(s) = 30
  BY <1>1, <1>3
<1> QED
  BY <1>1, <1>2, <1>4 DEF Numbers

\* The newest fifth of a window, and the rest.
LEMMA Fifth ==
    ASSUME NEW s, Series(s)
    PROVE  /\ Len(Newest(s, 6)) = 6 /\ \A i \in 1 .. 6 : Newest(s, 6)[i] = s[24 + i]
           /\ Newest(s, 6) \in Seq(Nat)
           /\ Len(AllBut(s, 6)) = 24 /\ \A i \in 1 .. 24 : AllBut(s, 6)[i] = s[i]
           /\ Numbers(Newest(s, 6)) /\ Numbers(AllBut(s, 6))
<1>1. Len(s) = 30 /\ \A i \in 1 .. 30 : s[i] \in Nat
  BY SeriesIsSeq
<1>2. Max({1, 25}) = 25
  BY MaxOfTwo
<1>3. Newest(s, 6) = SubSeq(s, 25, 30) /\ AllBut(s, 6) = SubSeq(s, 1, 24)
  BY <1>1, <1>2 DEF Newest, AllBut
<1>4. /\ SubSeq(s, 25, 30) \in Seq(Nat) /\ Len(SubSeq(s, 25, 30)) = 6
      /\ \A i \in 1 .. 6 : SubSeq(s, 25, 30)[i] = s[24 + i]
  <2>1. 25 \in Int /\ 30 \in Int /\ \A i \in 25 .. 30 : s[i] \in Nat
    BY <1>1
  <2>2. /\ SubSeq(s, 25, 30) \in Seq(Nat)
        /\ Len(SubSeq(s, 25, 30)) = IF 25 <= 30 THEN 30 - 25 + 1 ELSE 0
        /\ \A i \in 1 .. 30 - 25 + 1 : SubSeq(s, 25, 30)[i] = s[25 + i - 1]
    BY <2>1, SubSeqProperties
  <2>3. \A i \in 1 .. 6 : 25 + i - 1 = 24 + i
    OBVIOUS
  <2> QED
    BY <2>2, <2>3
<1>5. /\ SubSeq(s, 1, 24) \in Seq(Nat) /\ Len(SubSeq(s, 1, 24)) = 24
      /\ \A i \in 1 .. 24 : SubSeq(s, 1, 24)[i] = s[i]
  <2>1. 1 \in Int /\ 24 \in Int /\ \A i \in 1 .. 24 : s[i] \in Nat
    BY <1>1
  <2>2. /\ SubSeq(s, 1, 24) \in Seq(Nat)
        /\ Len(SubSeq(s, 1, 24)) = IF 1 <= 24 THEN 24 - 1 + 1 ELSE 0
        /\ \A i \in 1 .. 24 - 1 + 1 : SubSeq(s, 1, 24)[i] = s[1 + i - 1]
    BY <2>1, SubSeqProperties
  <2>3. \A i \in 1 .. 24 : 1 + i - 1 = i
    OBVIOUS
  <2> QED
    BY <2>2, <2>3
<1>6. Numbers(Newest(s, 6)) /\ Numbers(AllBut(s, 6))
  <2>1. \A i \in 1 .. 6 : 24 + i \in 1 .. 30
    OBVIOUS
  <2>2. \A i \in 1 .. 24 : i \in 1 .. 30
    OBVIOUS
  <2>3. Numbers(SubSeq(s, 25, 30))
    BY <1>1, <1>4, <2>1 DEF Numbers
  <2>4. Numbers(SubSeq(s, 1, 24))
    BY <1>1, <1>5, <2>2 DEF Numbers
  <2> QED
    BY <1>3, <2>3, <2>4
<1> QED
  BY <1>3, <1>4, <1>5, <1>6

\* One change in a window: the values before it are one, those after it another.
LEMMA JumpPosition ==
    ASSUME NEW s, Series(s), OneJump(s)
    PROVE  \E k \in 1 .. 29 : s[1] # s[30] /\ Jumps(s, 30, k, s[1], s[30])
<1> DEFINE C == {i \in 1 .. 29 : s[i] # s[i + 1]}
<1>1. Len(s) = 30 /\ \A i \in 1 .. 30 : s[i] \in Nat
  BY SeriesIsSeq
<1>2. Cardinality(C) = 1
  <2>1. Len(s) - 1 = 29
    BY <1>1
  <2> QED
    BY <2>1 DEF OneJump
<1>3. IsFiniteSet(C)
  <2>1. 1 \in Int /\ 29 \in Int
    OBVIOUS
  <2>2. IsFiniteSet(1 .. 29)
    BY <2>1, FS_Interval, Zenon
  <2>3. C \subseteq 1 .. 29
    OBVIOUS
  <2> HIDE DEF C
  <2> QED
    BY <2>2, <2>3, FS_Subset
<1>4. PICK k : C = {k}
  <2> HIDE DEF C
  <2> QED
    BY <1>2, <1>3, FS_Singleton
<1>5. k \in 1 .. 29 /\ s[k] # s[k + 1] /\ \A i \in 1 .. 29 : i # k => s[i] = s[i + 1]
  BY <1>4
<1>6. \A i \in 1 .. k : s[i] = s[1]
  <2> DEFINE Bad == {i \in 1 .. k : s[i] # s[1]}
  <2> SUFFICES ASSUME Bad # {} PROVE FALSE
    OBVIOUS
  <2>0. Bad \subseteq Nat
    BY <1>5
  <2>1. PICK i \in Bad : \A j \in Bad : i <= j
    <3> HIDE DEF Bad
    <3> QED
      BY <2>0, LeastOf
  <2>2. i \in 1 .. k /\ s[i] # s[1]
    BY <2>1
  <2>3. i - 1 \in 1 .. k /\ i - 1 \in 1 .. 29 /\ i - 1 # k
    BY <1>5, <2>2
  <2>4. s[i - 1] = s[1]
    BY <2>1, <2>3
  <2>5. s[i - 1] = s[i]
    BY <1>5, <2>3
  <2> QED
    BY <2>2, <2>4, <2>5
<1>7. \A i \in k + 1 .. 30 : s[i] = s[k + 1]
  <2> DEFINE Bad == {i \in k + 1 .. 30 : s[i] # s[k + 1]}
  <2> SUFFICES ASSUME Bad # {} PROVE FALSE
    OBVIOUS
  <2>0. Bad \subseteq Nat
    BY <1>5
  <2>1. PICK i \in Bad : \A j \in Bad : i <= j
    <3> HIDE DEF Bad
    <3> QED
      BY <2>0, LeastOf
  <2>2. i \in k + 1 .. 30 /\ s[i] # s[k + 1]
    BY <2>1
  <2>3. i - 1 \in k + 1 .. 30 /\ i - 1 \in 1 .. 29 /\ i - 1 # k
    BY <1>5, <2>2
  <2>4. s[i - 1] = s[k + 1]
    BY <2>1, <2>3
  <2>5. s[i - 1] = s[i]
    BY <1>5, <2>3
  <2> QED
    BY <2>2, <2>4, <2>5
<1>8. s[30] = s[k + 1] /\ s[k] = s[1]
  BY <1>5, <1>6, <1>7
<1>9. Jumps(s, 30, k, s[1], s[30])
  BY <1>1, <1>5, <1>6, <1>7, <1>8 DEF Jumps
<1> QED
  BY <1>5, <1>8, <1>9

\* Of two products with the same positive factor the larger has the larger other one.
LEMMA Cancelled ==
    ASSUME NEW x \in Int, NEW y \in Int, NEW d \in Int, d > 0, x * d > y * d
    PROVE  x > y
<1> SUFFICES ASSUME x <= y PROVE FALSE
  OBVIOUS
<1>1. (y - x) * d >= 0
  OBVIOUS
<1>2. (y - x) * d = y * d - x * d
  OBVIOUS
<1> QED
  BY <1>1, <1>2

\* The spread of two values.
LEMMA SpreadOfTwo ==
    ASSUME NEW a \in Int, NEW b \in Int, NEW k \in Int, NEW m \in Int
    PROVE  (k + m) * (k * (a * a) + m * (b * b)) - (k * a + m * b) * (k * a + m * b)
              = k * m * ((b - a) * (b - a))
OBVIOUS

\* The z-score finds three outliers at the end of such a window if the jump is three
\* points old, at no other time.
LEMMA AlertAfterThree ==
    ASSUME NEW s, Series(s), NEW k \in 1 .. 29, s[1] # s[30], Jumps(s, 30, k, s[1], s[30]),
           ZscorePersistent(s)
    PROVE  k = 27
<1> DEFINE a == s[1]
           b == s[30]
           q == [i \in DOMAIN s |-> s[i] * s[i]]
<1>1. Len(s) = 30 /\ DOMAIN s = 1 .. 30 /\ a \in Nat /\ b \in Nat /\ \A i \in 1 .. 30 : s[i] \in Nat
  BY SeriesIsSeq
<1>2. Total(s) = k * a + (30 - k) * b
  <2>1. a \in Int /\ b \in Int /\ Jumps(s, 30, k, a, b)
    BY <1>1
  <2> HIDE DEF a, b
  <2> QED
    BY <2>1, SumOfJump
<1>3. Squares(s) = k * (a * a) + (30 - k) * (b * b)
  <2>1. q \in [1 .. 30 -> Nat]
    BY <1>1
  <2>2. Len(q) = 30
    BY <2>1, SeriesIsSeq DEF Series, N_POINTS
  <2>3. a * a \in Int /\ b * b \in Int
    BY <1>1
  <2>4. \A i \in 1 .. 30 : q[i] = IF i <= k THEN a * a ELSE b * b
    BY <1>1 DEF Jumps
  <2>5. Jumps(q, 30, k, a * a, b * b)
    <3> HIDE DEF q, a, b
    <3> QED
      BY <2>2, <2>4 DEF Jumps
  <2>6. Total(q) = k * (a * a) + (30 - k) * (b * b)
    <3> HIDE DEF q, a, b
    <3> QED
      BY <2>2, <2>3, <2>5, SumOfJump
  <2> QED
    BY <2>6 DEF Squares
<1>4. NewestPoints(s) = 28 .. 30
  <2>1. Max({1, 28}) = 28
    BY MaxOfTwo
  <2> QED
    BY <1>1, <2>1 DEF NewestPoints, PERSISTENCE_POINTS
<1> DEFINE sum == k * a + (30 - k) * b
           spread == 30 * (k * (a * a) + (30 - k) * (b * b)) - sum * sum
<1>5. \A i \in 28 .. 30 : 4 * 4 * (30 * s[i] - sum) * (30 * s[i] - sum) > 11 * 11 * spread
  BY <1>1, <1>2, <1>3, <1>4 DEF ZscorePersistent, Outliers, Z_SCORE_THRESHOLD
<1> DEFINE d == (b - a) * (b - a)
<1>6. d \in Int /\ d > 0
  <2>1. b - a \in Int /\ b - a # 0
    BY <1>1
  <2>2. \A x \in Int : x # 0 => x * x > 0
    OBVIOUS
  <2> QED
    BY <2>1, <2>2
<1>7. spread = k * (30 - k) * d
  <2>1. 30 - k \in Int /\ k + (30 - k) = 30
    OBVIOUS
  <2>2. (k + (30 - k)) * (k * (a * a) + (30 - k) * (b * b))
            - (k * a + (30 - k) * b) * (k * a + (30 - k) * b)
          = k * (30 - k) * ((b - a) * (b - a))
    <3> HIDE DEF a, b
    <3> QED
      BY <1>1, <2>1, SpreadOfTwo
  <2> QED
    BY <2>1, <2>2
<1>8. (30 * b - sum) * (30 * b - sum) = k * k * d
  <2>1. 30 * b - sum = k * (b - a)
    BY <1>1
  <2>2. \A x \in Int : (k * x) * (k * x) = k * k * (x * x)
    OBVIOUS
  <2>3. b - a \in Int
    BY <1>1
  <2> QED
    BY <2>1, <2>2, <2>3
<1>9. (30 * a - sum) * (30 * a - sum) = (30 - k) * (30 - k) * d
  <2>1. 30 * a - sum = (30 - k) * (a - b)
    BY <1>1
  <2>2. \A x, y \in Int : (y * x) * (y * x) = y * y * ((0 - x) * (0 - x))
    OBVIOUS
  <2>3. a - b \in Int /\ 0 - (a - b) = b - a /\ 30 - k \in Int
    BY <1>1
  <2>4. ((30 - k) * (a - b)) * ((30 - k) * (a - b))
           = (30 - k) * (30 - k) * ((0 - (a - b)) * (0 - (a - b)))
    BY <2>2, <2>3
  <2> QED
    BY <2>1, <2>3, <2>4
<1>10. 16 * (k * k) > 121 * (k * (30 - k))
  <2>1. 4 * 4 * (30 * b - sum) * (30 * b - sum) > 11 * 11 * spread
    BY <1>5
  <2>2. 16 * (k * k * d) > 121 * (k * (30 - k) * d)
    <3>1. \A x \in Int : 4 * 4 * x * x = 16 * (x * x)
      OBVIOUS
    <3>2. 30 * b - sum \in Int
      BY <1>1
    <3> HIDE DEF sum, spread, d, a, b
    <3> QED
      BY <2>1, <3>1, <3>2, <1>7, <1>8
  <2>3. (16 * (k * k)) * d > (121 * (k * (30 - k))) * d
    <3> HIDE DEF sum, spread, d, a, b
    <3> QED
      BY <2>2, <1>6
  <2>4. 16 * (k * k) \in Int /\ 121 * (k * (30 - k)) \in Int
    OBVIOUS
  <2> HIDE DEF d
  <2> QED
    BY <2>3, <2>4, <1>6, Cancelled
<1>11. k >= 27
  <2> SUFFICES ASSUME k <= 26 PROVE FALSE
    OBVIOUS
  <2>1. 16 * (k * k) = (16 * k) * k /\ 121 * (k * (30 - k)) = (121 * (30 - k)) * k
    OBVIOUS
  <2>2. 16 * k > 121 * (30 - k)
    <3>1. 16 * k \in Int /\ 121 * (30 - k) \in Int /\ k \in Int /\ k > 0
      OBVIOUS
    <3> QED
      BY <1>10, <2>1, <3>1, Cancelled
  <2> QED
    BY <2>2
<1>12. k <= 27
  <2> SUFFICES ASSUME k >= 28 PROVE FALSE
    OBVIOUS
  <2>1. s[28] = a
    BY <1>1 DEF Jumps
  <2>2. 4 * 4 * (30 * a - sum) * (30 * a - sum) > 11 * 11 * spread
    BY <1>5, <2>1
  <2>3. 16 * ((30 - k) * (30 - k) * d) > 121 * (k * (30 - k) * d)
    <3>1. \A x \in Int : 4 * 4 * x * x = 16 * (x * x)
      OBVIOUS
    <3>2. 30 * a - sum \in Int
      BY <1>1
    <3> HIDE DEF sum, spread, d, a, b
    <3> QED
      BY <2>2, <3>1, <3>2, <1>7, <1>9
  <2>4. (16 * ((30 - k) * (30 - k))) * d > (121 * (k * (30 - k))) * d
    <3> HIDE DEF sum, spread, d, a, b
    <3> QED
      BY <2>3, <1>6
  <2>5. 16 * ((30 - k) * (30 - k)) \in Int /\ 121 * (k * (30 - k)) \in Int
    OBVIOUS
  <2>6. 16 * ((30 - k) * (30 - k)) > 121 * (k * (30 - k))
    <3> HIDE DEF d
    <3> QED
      BY <2>4, <2>5, <1>6, Cancelled
  <2>7. k \in {28, 29}
    OBVIOUS
  <2> QED
    BY <2>6, <2>7
<1> QED
  BY <1>11, <1>12

\* Three points of six are not sixty per cent.
LEMMA AlertIsTooEarly ==
    ASSUME NEW metrics, Series(metrics.request_count), OneJump(metrics.request_count),
           ZscorePersistent(metrics.request_count)
    PROVE  ~Sustained(Sixty, metrics)
<1> DEFINE s == metrics.request_count
           newest == Newest(s, 6)
           base == Mean2(AllBut(s, 6))
           above == {i \in DOMAIN newest : newest[i] * base[2] > 2 * base[1]}
<1>1. Len(s) = 30 /\ \A i \in 1 .. 30 : s[i] \in Nat
  BY SeriesIsSeq
<1>2. s[1] # s[30] /\ Jumps(s, 30, 27, s[1], s[30])
  BY JumpPosition, AlertAfterThree
<1>3. /\ Len(newest) = 6 /\ \A i \in 1 .. 6 : newest[i] = s[24 + i]
      /\ newest \in Seq(Nat)
      /\ Len(AllBut(s, 6)) = 24 /\ \A i \in 1 .. 24 : AllBut(s, 6)[i] = s[i]
  BY Fifth
<1> DEFINE a == s[1]
<1>4. a \in Nat /\ \A i \in 1 .. 27 : s[i] = a
  BY <1>1, <1>2 DEF Jumps
<1>5. Total(AllBut(s, 6)) = 24 * a
  <2>1. \A i \in 1 .. 24 : AllBut(s, 6)[i] = IF i <= 24 THEN a ELSE a
    <3>1. \A i \in 1 .. 24 : i \in 1 .. 27
      OBVIOUS
    <3> HIDE DEF a, s
    <3> QED
      BY <1>3, <1>4, <3>1
  <2> HIDE DEF a, s
  <2>2. Jumps(AllBut(s, 6), 24, 24, a, a) /\ a \in Int
    BY <1>3, <1>4, <2>1 DEF Jumps
  <2>3. Total(AllBut(s, 6)) = 24 * a + (24 - 24) * a
    BY <2>2, SumOfJump
  <2> QED
    BY <2>2, <2>3
<1>6. base[1] = 24 * a /\ base[2] = 24
  BY <1>3, <1>5 DEF Mean2
<1>7. above \subseteq 4 .. 6
  <2> SUFFICES ASSUME NEW i \in above PROVE i \in 4 .. 6
    OBVIOUS
  <2>1. DOMAIN newest = 1 .. 6
    <3> HIDE DEF newest
    <3> QED
      BY <1>3, LenProperties
  <2>2. i \in 1 .. 6 /\ newest[i] * 24 > 2 * (24 * a)
    BY <1>6, <2>1
  <2>3. newest[i] = s[24 + i]
    BY <1>3, <2>2
  <2>4. CASE i \in 1 .. 3
    <3>1. 24 + i \in 1 .. 27
      BY <2>4
    <3>2. newest[i] = a
      BY <1>4, <2>3, <3>1
    <3> HIDE DEF newest, a
    <3> QED
      BY <1>4, <2>2, <3>2
  <2> QED
    BY <2>2, <2>4
<1>8. Cardinality(above) \in Nat /\ Cardinality(above) <= 3
  <2>1. 4 \in Int /\ 6 \in Int
    OBVIOUS
  <2>2. IsFiniteSet(4 .. 6) /\ Cardinality(4 .. 6) = IF 4 > 6 THEN 0 ELSE 6 - 4 + 1
    BY <2>1, FS_Interval, Zenon
  <2>3. Cardinality(4 .. 6) = 3
    BY <2>2
  <2> HIDE DEF above
  <2>4. IsFiniteSet(above) /\ Cardinality(above) <= Cardinality(4 .. 6)
    BY <1>7, <2>2, FS_Subset
  <2> QED
    BY <2>3, <2>4, FS_CardinalityType
<1>9. ASSUME Sustained(Sixty, metrics) PROVE FALSE
  <2>1. (2 * 30 + 5) \div 10 = 6
    OBVIOUS
  <2>2. Max({3, 6}) = 6
    BY MaxOfTwo
  <2>3. Max({Sixty.minPoints, (2 * Len(s) + 5) \div 10}) = 6
    BY <1>1, <2>1, <2>2 DEF Sixty
  <2>4. 100 * Cardinality(above) >= 60 * 6
    BY <1>9, <2>3 DEF Sustained, Sixty
  <2> HIDE DEF above
  <2> QED
    BY <1>8, <2>4
<1> QED
  BY <1>9

\* The newest fifth of a window and the rest of it are as large as their points.
LEMMA TrendParts ==
    ASSUME NEW cost, Series(cost)
    PROVE  /\ RecentPoints(cost) = 6
           /\ Total(Newest(cost, 6)) \in Nat /\ Total(AllBut(cost, 6)) \in Nat
           /\ RecentAverage(cost) = Total(Newest(cost, 6)) \div 6
           /\ Total(cost) \in Nat /\ Len(cost) = 30
<1>1. Len(cost) = 30 /\ Numbers(cost)
  BY SeriesIsSeq
<1>2. RecentPoints(cost) = 6
  <2>1. 30 \div 5 = 6
    OBVIOUS
  <2>2. Max({3, 6}) = 6 /\ Min({6, 29}) = 6
    BY MaxOfTwo, MinOfTwo
  <2> QED
    BY <1>1, <2>1, <2>2 DEF RecentPoints
<1>3. Len(Newest(cost, 6)) = 6 /\ Numbers(Newest(cost, 6)) /\ Numbers(AllBut(cost, 6))
  BY Fifth
<1> QED
  BY <1>1, <1>2, <1>3, SumExists DEF RecentAverage

\* What can be saved by curbing a rise is part of what the risen part costs.
LEMMA TrendWithin ==
    ASSUME NEW cost, Series(cost)
    PROVE  TrendSaving(cost).dollars <= PeriodsPerHour * RecentAverage(cost)
<1> DEFINE recent == Total(Newest(cost, 6)) \div 6
           base == Total(AllBut(cost, 6)) \div 24
<1>1. /\ RecentPoints(cost) = 6
      /\ Total(Newest(cost, 6)) \in Nat /\ Total(AllBut(cost, 6)) \in Nat
      /\ RecentAverage(cost) = recent /\ Len(cost) - 6 = 24
  BY TrendParts
<1>2. recent \in Nat /\ base \in Nat
  BY <1>1
<1>3. TrendSaving(cost).dollars = 12 * Max({0, recent - base})
  BY <1>1 DEF TrendSaving, PeriodsPerHour
<1> HIDE DEF recent, base
<1>4. Max({0, recent - base}) = IF 0 >= recent - base THEN 0 ELSE recent - base
  BY <1>2, MaxOfTwo
<1> QED
  BY <1>1, <1>2, <1>3, <1>4 DEF PeriodsPerHour

\* Stopping saves what the hour costs, a schedule half of it.
LEMMA RemovalWithin ==
    ASSUME NEW cost, Series(cost), NEW percent \in {50, 100}
    PROVE  FullRemovalSaving(cost, percent).dollars <= (PeriodsPerHour * Total(cost)) \div Len(cost)
<1>1. Total(cost) \in Nat /\ Len(cost) = 30
  BY TrendParts
<1>2. \A x \in Nat : (12 * x * 100) \div 3000 <= (12 * x) \div 30
  OBVIOUS
<1>3. \A x \in Nat : (12 * x * 50) \div 3000 <= (12 * x) \div 30
  OBVIOUS
<1>4. FullRemovalSaving(cost, percent).dollars = (12 * Total(cost) * percent) \div (100 * 30)
  BY <1>1 DEF FullRemovalSaving, PeriodsPerHour
<1>5. 100 * 30 = 3000
  OBVIOUS
<1> QED
  BY <1>1, <1>2, <1>3, <1>4, <1>5 DEF PeriodsPerHour

\* The newest fifth of a cost that jumped upwards three points ago is above the rest.
LEMMA RiseIsWorth ==
    ASSUME NEW cost, Series(cost), OneJump(cost), ZscorePersistent(cost),
           Last(cost) > Head(cost) + 1
    PROVE  TrendSaving(cost).dollars > 0
<1> DEFINE a == cost[1]
           b == cost[30]
<1>1. Len(cost) = 30 /\ a \in Nat /\ b \in Nat /\ \A i \in 1 .. 30 : cost[i] \in Nat
  BY SeriesIsSeq
<1>2. Jumps(cost, 30, 27, a, b)
  BY JumpPosition, AlertAfterThree
<1>3. b > a + 1
  BY <1>1 DEF Last
<1>4. /\ Len(Newest(cost, 6)) = 6 /\ \A i \in 1 .. 6 : Newest(cost, 6)[i] = cost[24 + i]
      /\ Len(AllBut(cost, 6)) = 24 /\ \A i \in 1 .. 24 : AllBut(cost, 6)[i] = cost[i]
  BY Fifth
<1>5. Total(AllBut(cost, 6)) = 24 * a
  <2>1. \A i \in 1 .. 24 : AllBut(cost, 6)[i] = IF i <= 24 THEN a ELSE a
    BY <1>2, <1>1, <1>4 DEF Jumps
  <2> HIDE DEF a
  <2>2. Jumps(AllBut(cost, 6), 24, 24, a, a) /\ a \in Int
    BY <1>1, <1>4, <2>1 DEF Jumps
  <2>3. Total(AllBut(cost, 6)) = 24 * a + (24 - 24) * a
    BY <2>2, SumOfJump
  <2> QED
    BY <2>2, <2>3
<1>6. Total(Newest(cost, 6)) = 3 * a + 3 * b
  <2>1. \A i \in 1 .. 6 : 24 + i \in 1 .. 30 /\ (24 + i <= 27 <=> i <= 3)
    OBVIOUS
  <2>2. \A i \in 1 .. 6 : Newest(cost, 6)[i] = IF i <= 3 THEN a ELSE b
    BY <1>1, <1>2, <1>4, <2>1 DEF Jumps
  <2> HIDE DEF a, b
  <2>3. Jumps(Newest(cost, 6), 6, 3, a, b) /\ a \in Int /\ b \in Int
    BY <1>1, <1>4, <2>2 DEF Jumps
  <2>4. Total(Newest(cost, 6)) = 3 * a + (6 - 3) * b
    BY <2>3, SumOfJump
  <2> QED
    BY <2>3, <2>4
<1> DEFINE recent == Total(Newest(cost, 6)) \div 6
           base == Total(AllBut(cost, 6)) \div 24
<1>7. RecentPoints(cost) = 6 /\ Len(cost) - 6 = 24
  BY TrendParts
<1>8. TrendSaving(cost).dollars = 12 * Max({0, recent - base})
  BY <1>7 DEF TrendSaving, PeriodsPerHour
<1>9. recent \in Int /\ base \in Int /\ recent > base
  <2>1. base = (24 * a) \div 24 /\ recent = (3 * a + 3 * b) \div 6
    BY <1>5, <1>6
  <2> HIDE DEF a, b, recent, base
  <2> QED
    BY <1>1, <1>3, <2>1
<1> HIDE DEF recent, base
<1>10. Max({0, recent - base}) = IF 0 >= recent - base THEN 0 ELSE recent - base
  BY <1>9, MaxOfTwo
<1> QED
  BY <1>8, <1>9, <1>10

\* The shape of the window: every metric of the type, and 30 points of each.
WindowOK ==
  /\ type \in Watched /\ DOMAIN window = Measured(type)
  /\ \A m \in Measured(type) : window[m] \in [1 .. N_POINTS -> IF m = "on" THEN BOOLEAN ELSE Nat]

\* The inductive invariant: the shape of the window, and what a run that has acted
\* has to do with it.
WatchInv ==
  /\ WindowOK /\ "stage" \in DOMAIN run
  /\ RuleNeedsForest /\ SavingsAreSound /\ FreshInstanceIsSpared

\* The four types, and what the window has for three of them.
LEMMA TypesOfWindow ==
    ASSUME WindowOK
    PROVE  /\ type \in {"EC2", "Lambda", "AutoScaling", "S3"}
           /\ type = "Lambda" => Series(window.invocation_count)
           /\ type = "S3" => Series(window.number_of_requests)
           /\ type = "AutoScaling" =>
                /\ Series(window.group_desired_capacity)
                /\ Series(window.request_count)
<1>1. type \in {"EC2", "Lambda", "AutoScaling", "S3"}
  BY WatchAssumption DEF WindowOK, METRIC_SPEC
<1>2. CASE type = "Lambda"
  <2>1. "invocation_count" \in Measured(type)
    BY <1>2 DEF Measured, METRIC_SPEC
  <2> QED
    BY <1>1, <1>2, <2>1 DEF WindowOK, Series
<1>3. CASE type = "S3"
  <2>1. "number_of_requests" \in Measured(type)
    BY <1>3 DEF Measured, METRIC_SPEC
  <2> QED
    BY <1>1, <1>3, <2>1 DEF WindowOK, Series
<1>4. CASE type = "AutoScaling"
  <2>1. "group_desired_capacity" \in Measured(type) /\ "request_count" \in Measured(type)
    BY <1>4 DEF Measured, METRIC_SPEC
  <2> QED
    BY <1>1, <1>4, <2>1 DEF WindowOK, Series
<1>5. CASE type = "EC2"
  BY <1>5
<1> QED
  BY <1>1, <1>2, <1>3, <1>4, <1>5

\* What the pipeline sees of the window.
LEMMA Assembled ==
    ASSUME WindowOK, NEW extra \in Extras
    PROVE  LET metrics == AssembleResource(extra) IN
           /\ Series(metrics.cost)
           /\ "request_count" \in DOMAIN metrics => Series(metrics.request_count)
           /\ type = "EC2" /\ (\A i \in 1 .. N_POINTS : window.on[i]) =>
                \A i \in 1 .. 30 : metrics.cost[i] = 21
<1> DEFINE metrics == AssembleResource(extra)
           usage == FetchMetrics(METRIC_SPEC[type])
           events == IF type = "EC2" THEN StateChangeEvents(window.on) ELSE << >>
           cost == EstimateCostSeries(type, TIER, usage, events, N_POINTS)
           seen == /\ Series(metrics.cost)
                   /\ "request_count" \in DOMAIN metrics => Series(metrics.request_count)
                   /\ type = "EC2" /\ (\A i \in 1 .. N_POINTS : window.on[i]) =>
                        \A i \in 1 .. 30 : metrics.cost[i] = 21
<1> SUFFICES seen
  OBVIOUS
<1> HIDE DEF seen
<1>1. /\ DOMAIN metrics = METRIC_SPEC[type] \cup extra \cup {"cost"}
      /\ metrics.cost = cost
      /\ \A m \in METRIC_SPEC[type] \cup extra : m # "cost" => metrics[m] = window[m]
  <2>1. metrics = [m \in METRIC_SPEC[type] \cup extra \cup {"cost"} |->
                      IF m = "cost" THEN cost ELSE window[m]]
    BY DEF AssembleResource
  <2> HIDE DEF metrics, cost
  <2> QED
    BY <2>1
<1>2. "request_count" \in DOMAIN metrics => Series(metrics.request_count)
  <2> SUFFICES ASSUME "request_count" \in DOMAIN metrics PROVE Series(metrics.request_count)
    OBVIOUS
  <2>1. type = "AutoScaling" /\ "request_count" \in METRIC_SPEC[type] \cup extra
    <3>1. "request_count" \notin METRIC_SPEC[type]
      BY TypesOfWindow DEF METRIC_SPEC
    <3>2. "request_count" \in extra
      BY <1>1, <3>1
    <3> QED
      BY <3>2 DEF Extras
  <2>2. metrics.request_count = window.request_count
    <3> HIDE DEF metrics
    <3> QED
      BY <1>1, <2>1
  <2> QED
    BY <2>1, <2>2, TypesOfWindow
<1>3. ASSUME type = "EC2" PROVE Series(cost)
  <2>1. cost = [i \in 1 .. 30 |-> RateTable[2] * RunningFractions(events, 30, TRUE)[i]]
    BY <1>3 DEF EstimateCostSeries, TIER, N_POINTS
  <2>2. \A i \in 1 .. 30 : RunningFractions(events, 30, TRUE)[i] \in {0, 1}
    <3> HIDE DEF events
    <3> QED
      BY DEF RunningFractions
  <2>3. \A i \in 1 .. 30 : RateTable[2] * RunningFractions(events, 30, TRUE)[i] \in {0, 21}
    <3>1. RateTable[2] * 0 = 0 /\ RateTable[2] * 1 = 21
      BY DEF RateTable
    <3> HIDE DEF events
    <3> QED
      BY <2>2, <3>1
  <2> HIDE DEF cost, events
  <2>4. \A i \in 1 .. 30 : RateTable[2] * RunningFractions(events, 30, TRUE)[i] \in Nat
    <3>1. \A x \in {0, 21} : x \in Nat
      OBVIOUS
    <3> QED
      BY <2>3, <3>1, Zenon
  <2> QED
    BY <2>1, <2>4, Zenon DEF Series, N_POINTS
<1>4. ASSUME type = "EC2", \A i \in 1 .. N_POINTS : window.on[i]
      PROVE  \A i \in 1 .. 30 : cost[i] = 21
  <2>1. cost = [i \in 1 .. 30 |-> RateTable[2] * RunningFractions(events, 30, TRUE)[i]]
    BY <1>4 DEF EstimateCostSeries, TIER, N_POINTS
  <2>2. DOMAIN events = {}
    <3>1. \A i \in 1 .. 30 : window.on[i] = TRUE
      <4>1. "on" \in Measured(type)
        BY <1>4 DEF Measured
      <4>2. window.on \in [1 .. 30 -> BOOLEAN]
        BY <4>1 DEF WindowOK, N_POINTS
      <4> QED
        BY <4>2, <1>4 DEF N_POINTS
    <3>2. DOMAIN StateChangeEvents(window.on) = {j \in 1 .. 29 : window.on[j] # window.on[j + 1]}
      BY DEF StateChangeEvents, N_POINTS
    <3>3. \A j \in 1 .. 29 : j \in 1 .. 30 /\ j + 1 \in 1 .. 30
      OBVIOUS
    <3>4. DOMAIN StateChangeEvents(window.on) = {}
      BY <3>1, <3>2, <3>3
    <3> QED
      BY <1>4, <3>4
  <2>3. \A i \in 1 .. 30 : RunningFractions(events, 30, TRUE)[i] = 1
    <3> HIDE DEF events
    <3>1. \A i : {p \in DOMAIN events : p < i} = {}
      BY <2>2
    <3> QED
      BY <3>1 DEF RunningFractions
  <2>4. RateTable[2] * 1 = 21
    BY DEF RateTable
  <2> HIDE DEF cost, events
  <2>5. \A i \in 1 .. 30 : cost[i] = RateTable[2] * RunningFractions(events, 30, TRUE)[i]
    BY <2>1, Zenon
  <2> QED
    BY <2>3, <2>4, <2>5, Zenon
<1>5. CASE type = "AutoScaling"
  <2>1. cost = [i \in 1 .. 30 |-> RateTable[2] * usage.group_desired_capacity[i]]
    BY <1>5 DEF EstimateCostSeries, TIER, N_POINTS
  <2>2. usage.group_desired_capacity = window.group_desired_capacity
    BY <1>5 DEF FetchMetrics, METRIC_SPEC
  <2>3. RateTable[2] = 21
    BY DEF RateTable
  <2>4. \A i \in 1 .. 30 : window.group_desired_capacity[i] \in Nat
    BY <1>5, TypesOfWindow DEF Series, N_POINTS
  <2>5. Series(cost)
    <3> HIDE DEF cost, usage
    <3> QED
      BY <2>1, <2>2, <2>3, <2>4 DEF Series, N_POINTS
  <2> HIDE DEF cost, metrics
  <2> QED
    BY <1>1, <1>2, <1>5, <2>5 DEF seen
<1>6. CASE type = "Lambda"
  <2>1. cost = window.invocation_count
    BY <1>6 DEF EstimateCostSeries, FetchMetrics, METRIC_SPEC
  <2> HIDE DEF cost, metrics
  <2> QED
    BY <1>1, <1>2, <1>6, <2>1, TypesOfWindow DEF seen
<1>7. CASE type = "S3"
  <2>1. cost = window.number_of_requests
    BY <1>7 DEF EstimateCostSeries, FetchMetrics, METRIC_SPEC
  <2> HIDE DEF cost, metrics
  <2> QED
    BY <1>1, <1>2, <1>7, <2>1, TypesOfWindow DEF seen
<1>8. CASE type = "EC2"
  <2> HIDE DEF cost, metrics
  <2> QED
    BY <1>1, <1>2, <1>3, <1>4, <1>8 DEF seen
<1> QED
  BY <1>5, <1>6, <1>7, <1>8, TypesOfWindow

\* Thirty full hours of a t3.small: the type a step smaller saves part of what they cost,
\* and the price that lies closest to them is that of the smallest.
LEMMA ResizeWithin ==
    ASSUME NEW cost, Series(cost), \A i \in 1 .. 30 : cost[i] = 21, NEW tier \in {0, 2}
    PROVE  Ec2ResizeSaving(cost, tier).saving.dollars
             <= (PeriodsPerHour * Total(cost)) \div Len(cost)
<1>1. Len(cost) = 30
  BY SeriesIsSeq
<1>2. Total(cost) = 630
  <2>1. Jumps(cost, 30, 30, 21, 21)
    BY <1>1 DEF Jumps
  <2>2. 21 \in Int
    OBVIOUS
  <2>3. Total(cost) = 30 * 21 + (30 - 30) * 21
    BY <2>1, <2>2, SumOfJump
  <2> QED
    BY <2>3
<1>3. (PeriodsPerHour * Total(cost)) \div Len(cost) = 252
  BY <1>1, <1>2 DEF PeriodsPerHour
<1>4. EstimatedTier(cost) = 1
  <2> DEFINE distance(t) == LET d == Len(cost) * PeriodsPerHour * Prices[t] - Total(cost)
                            IN  IF d < 0 THEN 0 - d ELSE d
             all == {distance(t) : t \in Tiers}
             near(n) == {t \in Tiers : distance(t) = n}
  <2>1. EstimatedTier(cost) = Min(near(Min(all)))
    BY DEF EstimatedTier
  <2>2. Tiers = {1, 2, 3, 4, 5}
    BY DEF Tiers, Prices
  <2>3. /\ distance(1) = 2970 /\ distance(2) = 6930 /\ distance(3) = 14490
        /\ distance(4) = 29250 /\ distance(5) = 59130
    BY <1>1, <1>2 DEF PeriodsPerHour, Prices
  <2> HIDE DEF distance
  <2>4. all = {2970, 6930, 14490, 29250, 59130}
    BY <2>2, <2>3
  <2>5. near(2970) = {1}
    BY <2>2, <2>3
  <2> HIDE DEF all, near
  <2>6. Min(all) = 2970
    BY <2>4 DEF Min
  <2>7. Min({1}) = 1
    BY DEF Min
  <2> QED
    BY <2>1, <2>5, <2>6, <2>7
<1>5. CASE tier = 0
  <2>1. Ec2ResizeSaving(cost, tier).saving = NoSaving
    BY <1>4, <1>5 DEF Ec2ResizeSaving
  <2> QED
    BY <1>3, <2>1 DEF NoSaving
<1>6. CASE tier = 2
  <2>1. Ec2ResizeSaving(cost, tier).saving.dollars = PeriodsPerHour * (Prices[2] - Prices[2 - 1])
    BY <1>6 DEF Ec2ResizeSaving
  <2>2. PeriodsPerHour * (Prices[2] - Prices[2 - 1]) = 132
    BY DEF PeriodsPerHour, Prices
  <2> QED
    BY <1>3, <2>1, <2>2
<1> QED
  BY <1>5, <1>6

\* What decision_node may decide: an action of the table, with what it saves.
LEMMA Decided ==
    ASSUME NEW st, NEW rules, NEW names, NEW now, NEW whitelist, NEW talks, NEW tiers,
           NEW d \in DecisionNode(rules, names, st, now, whitelist, talks, tiers)
    PROVE  /\ d.action \in AllowedActions(st.type, st.anomaly) \cup {"NoAction"}
           /\ d.current = CurrentCost(d.action, st.metrics.cost)
           /\ \E tier \in tiers : d.saving = SavingOf(d.action, st, tier).dollars
<1> DEFINE allowed == AllowedActions(st.type, st.anomaly)
           rule    == MatchRules(rules, st, now, whitelist)
           answers == {Ask(talk, Actions \cup {"Terminate"}) : talk \in talks}
           chosen  == IF rule = "None" THEN UNION {LlmActions(allowed, a) : a \in answers}
                      ELSE IF names[rule] \in allowed THEN {names[rule]} ELSE {"NoAction"}
<1>1. PICK a \in chosen, tier \in tiers :
        /\ d.action = a
        /\ d.current = CurrentCost(a, st.metrics.cost)
        /\ d.saving = SavingOf(a, st, tier).dollars
  BY DEF DecisionNode
<1>2. \A answer : LlmActions(allowed, answer) \subseteq allowed
  BY DEF LlmActions, FallbackActions
<1>3. chosen \subseteq allowed \cup {"NoAction"}
  <2> HIDE DEF allowed, rule, answers
  <2> QED
    BY <1>2
<1> HIDE DEF chosen
<1> QED
  BY <1>1, <1>3

\* The actions that are implemented: a type is resized only if it is EC2, and none is
\* put on a schedule.
LEMMA Implemented ==
    ASSUME NEW t \in {"EC2", "Lambda", "AutoScaling", "S3"}, NEW anomaly,
           NEW action \in AllowedActions(t, anomaly) \cup {"NoAction"}
    PROVE  /\ action \in TrendActions \cup {"NoAction", "Stop", "Resize"}
           /\ action = "Resize" => t = "EC2"
<1>1. AllowedActions(t, anomaly) \subseteq RESOURCE_IMPLEMENTED_ACTIONS[t] \cup {"NoAction"}
  BY DEF AllowedActions
<1>2. action \in RESOURCE_IMPLEMENTED_ACTIONS[t] \cup {"NoAction"}
  BY <1>1
<1> QED
  BY <1>2 DEF RESOURCE_IMPLEMENTED_ACTIONS, TrendActions

\* What an action saves is part of what the resource costs.
LEMMA SavingWithin ==
    ASSUME NEW st, NEW tier \in {0, 2}, Series(st.metrics.cost),
           NEW action \in TrendActions \cup {"Stop", "Resize"},
           action = "Resize" => \A i \in 1 .. 30 : st.metrics.cost[i] = 21
    PROVE  SavingOf(action, st, tier).dollars <= CurrentCost(action, st.metrics.cost)
<1> DEFINE cost == st.metrics.cost
<1>1. CASE action \in TrendActions
  <2>1. SavingOf(action, st, tier) = TrendSaving(cost)
    BY <1>1 DEF SavingOf, TrendActions
  <2>2. CurrentCost(action, cost) = PeriodsPerHour * RecentAverage(cost)
    BY <1>1 DEF CurrentCost
  <2> QED
    BY <2>1, <2>2, TrendWithin
<1>2. CASE action = "Stop"
  <2>1. SavingOf(action, st, tier) = FullRemovalSaving(cost, 100)
    BY <1>2 DEF SavingOf, TrendActions
  <2>2. CurrentCost(action, cost) = (PeriodsPerHour * Total(cost)) \div Len(cost)
    BY <1>2 DEF CurrentCost, TrendActions
  <2> QED
    BY <2>1, <2>2, RemovalWithin
<1>3. CASE action = "Resize"
  <2>1. SavingOf(action, st, tier) = Ec2ResizeSaving(cost, tier).saving
    BY <1>3 DEF SavingOf, TrendActions
  <2>2. CurrentCost(action, cost) = (PeriodsPerHour * Total(cost)) \div Len(cost)
    BY <1>3 DEF CurrentCost, TrendActions
  <2> QED
    BY <1>3, <2>1, <2>2, ResizeWithin
<1> QED
  BY <1>1, <1>2, <1>3

\* A rule that is matched has its conditions met.
LEMMA MatchedIsSustained ==
    ASSUME NEW st, NEW now, NEW whitelist, NEW names, NEW talks,
           NEW class \in ClassificationNode(ClfRules, names, st, now, whitelist, talks),
           class.rule = "CLF-001"
    PROVE  Sustained(Sixty, st.metrics)
<1> DEFINE spikes == IF st.triggered # {} THEN st.triggered ELSE SpikeMetrics(st.metrics)
           hits == {i \in DOMAIN ClfRules :
                      /\ "*" \in ClfRules[i].types \/ st.type \in ClfRules[i].types
                      /\ EvaluateConditions(ClfRules[i], st, spikes, now, whitelist)}
<1>1. MatchRules(ClfRules, st, now, whitelist) = "CLF-001"
  BY DEF ClassificationNode
<1>2. MatchRules(ClfRules, st, now, whitelist)
        = IF hits = {} THEN "None" ELSE ClfRules[Min(hits)].id
  BY DEF MatchRules
<1>3. hits \subseteq Nat
  <2>1. DOMAIN ClfRules \subseteq Nat
    BY WatchAssumption
  <2> QED
    BY <2>1
<1>4. \A i \in hits :
        i \in DOMAIN ClfRules /\ EvaluateConditions(ClfRules[i], st, spikes, now, whitelist)
  OBVIOUS
<1> HIDE DEF hits, spikes
<1>5. hits # {} /\ ClfRules[Min(hits)].id = "CLF-001"
  BY <1>1, <1>2
<1>6. Min(hits) \in hits
  BY <1>3, <1>5, LeastMember
<1>7. Sixty \in ClfRules[Min(hits)].conditions.sustained
  BY <1>4, <1>5, <1>6, RuleBookAssumption
<1>8. EvaluateConditions(ClfRules[Min(hits)], st, spikes, now, whitelist)
  BY <1>4, <1>6
<1> QED
  BY <1>7, <1>8 DEF EvaluateConditions

\* An instance that was off at some point is as young as its last start, if that is known.
LEMMA OffIsYoung ==
    ASSUME NEW age \in Ages, type = "EC2", age # -1, age \notin 0 .. 149
    PROVE  \A i \in 1 .. N_POINTS : window.on[i]
<1> DEFINE off == {i \in 1 .. N_POINTS : ~ window.on[i]}
           back == {n \in 0 .. 30 : 30 - n \in off \cup {0}}
<1>1. off \subseteq 1 .. 30
  BY DEF N_POINTS
<1>2. age = 5 * (30 - Max(off \cup {0}))
  BY DEF Ages, N_POINTS
<1> HIDE DEF off
<1>3. PICK n \in back : \A k \in back : n <= k
  <2>1. back \subseteq Nat /\ 30 \in back
    OBVIOUS
  <2> HIDE DEF back
  <2> QED
    BY <2>1, LeastOf
<1>4. 30 - n \in off \cup {0} /\ 30 - n \in 0 .. 30
  BY <1>3
<1>5. \A i \in off \cup {0} : 30 - n >= i
  <2> SUFFICES ASSUME NEW i \in off \cup {0} PROVE 30 - n >= i
    OBVIOUS
  <2>1. i \in 0 .. 30
    BY <1>1
  <2>2. 30 - (30 - i) = i /\ 30 - i \in 0 .. 30
    BY <2>1
  <2>3. 30 - i \in back
    BY <2>2
  <2>4. n \in 0 .. 30
    OBVIOUS
  <2> HIDE DEF back
  <2>5. n <= 30 - i
    BY <1>3, <2>3
  <2> QED
    BY <2>1, <2>4, <2>5
<1>6. Max(off \cup {0}) \in off \cup {0} /\ \A i \in off \cup {0} : Max(off \cup {0}) >= i
  BY <1>4, <1>5 DEF Max
<1>7. Max(off \cup {0}) = 0
  <2>0. \A x \in off \cup {0} : x \in 0 .. 30
    BY <1>1
  <2>1. Max(off \cup {0}) \in 0 .. 30
    BY <1>6, <2>0, Zenon
  <2> QED
    BY <1>2, <2>1
<1>8. off = {}
  <2> SUFFICES ASSUME NEW i \in off PROVE FALSE
    OBVIOUS
  <2> QED
    BY <1>1, <1>6, <1>7
<1> QED
  BY <1>8 DEF off

\* What a run of the graph that comes to its action has judged and recorded.
HasActed(extra, age) ==
  LET metrics == AssembleResource(extra) IN
    \E now, st, judged, class, d :
      /\ class \in ClassificationNode(ClfRules, Named, st, now, Whitelist, ClfTalks)
      /\ d \in DecisionNode(DecRules, Named, judged, now, Whitelist, DecTalks, Lookups)
      /\ st.metrics = metrics /\ judged.metrics = metrics /\ judged.type = type
      /\ "stage" \in DOMAIN run' /\ run'.stage = "acted" /\ run'.metrics = metrics
      /\ run'.age = age /\ run'.band = LowUtilization(type, metrics, age)
      /\ run'.byZ = {m \in DOMAIN metrics \cap Z_SCORE_TARGETS : ZscorePersistent(metrics[m])}
      /\ run'.class = class.rule /\ run'.action = d.action
      /\ run'.current = d.current /\ run'.saving = d.saving

\* A run of the graph has.
LEMMA PollActs ==
    ASSUME NEW extra \in Extras, NEW age \in Ages, Poll(extra, age)
    PROVE  HasActed(extra, age)
<1> DEFINE metrics == AssembleResource(extra)
           seen(forest) == DetectionNode(type, metrics, age, forest)
           st(forest) == [type |-> type, resource |-> RESOURCE, metrics |-> metrics,
                          triggered |-> seen(forest).triggered, band |-> seen(forest).band,
                          anomaly |-> None]
           acted(forest, now, class, d, avoided, result) ==
              [stage |-> "acted", type |-> type, resource |-> RESOURCE,
               metrics |-> metrics, triggered |-> seen(forest).triggered,
               band |-> seen(forest).band,
               anomaly |-> class.anomaly, age |-> age, byZ |-> seen(forest).byZ,
               class |-> class.rule,
               whitelisted |-> WhitelistEntry(Whitelist, RESOURCE, type, now),
               action |-> d.action, current |-> d.current,
               saving |-> d.saving, avoided |-> avoided, result |-> result]
<1>1. PICK forest \in ForestVerdicts(type, metrics, age) :
        \E now \in Clock :
        \E class \in ClassificationNode(ClfRules, Named, st(forest), now, Whitelist, ClfTalks) :
        \E d \in DecisionNode(DecRules, Named, [st(forest) EXCEPT !.anomaly = class.anomaly], now,
                             Whitelist, DecTalks, Lookups) :
        \E avoided \in AvoidedCosts(d.waf), result \in Results(d.action) :
            run' = acted(forest, now, class, d, avoided, result)
  BY Zenon DEF Poll
<1>2. PICK now \in Clock :
        \E class \in ClassificationNode(ClfRules, Named, st(forest), now, Whitelist, ClfTalks) :
        \E d \in DecisionNode(DecRules, Named, [st(forest) EXCEPT !.anomaly = class.anomaly], now,
                             Whitelist, DecTalks, Lookups) :
        \E avoided \in AvoidedCosts(d.waf), result \in Results(d.action) :
            run' = acted(forest, now, class, d, avoided, result)
  BY <1>1, Zenon
<1>3. PICK class \in ClassificationNode(ClfRules, Named, st(forest), now, Whitelist, ClfTalks) :
        \E d \in DecisionNode(DecRules, Named, [st(forest) EXCEPT !.anomaly = class.anomaly], now,
                             Whitelist, DecTalks, Lookups) :
        \E avoided \in AvoidedCosts(d.waf), result \in Results(d.action) :
            run' = acted(forest, now, class, d, avoided, result)
  BY <1>2, Zenon
<1>4. PICK d \in DecisionNode(DecRules, Named, [st(forest) EXCEPT !.anomaly = class.anomaly], now,
                             Whitelist, DecTalks, Lookups) :
        \E avoided \in AvoidedCosts(d.waf), result \in Results(d.action) :
            run' = acted(forest, now, class, d, avoided, result)
  BY <1>3, Zenon
<1>5. /\ seen(forest).band = LowUtilization(type, metrics, age)
      /\ seen(forest).byZ
           = {m \in DOMAIN metrics \cap Z_SCORE_TARGETS : ZscorePersistent(metrics[m])}
  BY DEF DetectionNode
<1> HIDE DEF seen
<1>6. /\ run'.stage = "acted" /\ run'.metrics = metrics /\ "stage" \in DOMAIN run'
      /\ run'.age = age /\ run'.band = seen(forest).band /\ run'.byZ = seen(forest).byZ
      /\ run'.class = class.rule /\ run'.action = d.action
      /\ run'.current = d.current /\ run'.saving = d.saving
  <2> HIDE DEF metrics, st
  <2> QED
    BY <1>4
<1>7. /\ st(forest).metrics = metrics /\ st(forest).type = type
      /\ [st(forest) EXCEPT !.anomaly = class.anomaly].metrics = metrics
      /\ [st(forest) EXCEPT !.anomaly = class.anomaly].type = type
  <2> HIDE DEF metrics
  <2> QED
    OBVIOUS
<1> HIDE DEF st, acted
<1>8. /\ class \in ClassificationNode(ClfRules, Named, st(forest), now, Whitelist, ClfTalks)
      /\ d \in DecisionNode(DecRules, Named, [st(forest) EXCEPT !.anomaly = class.anomaly], now,
                            Whitelist, DecTalks, Lookups)
  OBVIOUS
<1> QED
  BY <1>5, <1>6, <1>7, <1>8, Zenon DEF HasActed

\* So it leaves the invariant.
LEMMA PollKeeps ==
    ASSUME WatchInv, NEW extra \in Extras, NEW age \in Ages, Poll(extra, age)
    PROVE  WatchInv'
<1> DEFINE metrics == AssembleResource(extra)
<1>1. PICK now, st, judged, class, d :
        /\ class \in ClassificationNode(ClfRules, Named, st, now, Whitelist, ClfTalks)
        /\ d \in DecisionNode(DecRules, Named, judged, now, Whitelist, DecTalks, Lookups)
        /\ st.metrics = metrics /\ judged.metrics = metrics /\ judged.type = type
        /\ "stage" \in DOMAIN run' /\ run'.stage = "acted" /\ run'.metrics = metrics
        /\ run'.age = age /\ run'.band = LowUtilization(type, metrics, age)
        /\ run'.byZ = {m \in DOMAIN metrics \cap Z_SCORE_TARGETS : ZscorePersistent(metrics[m])}
        /\ run'.class = class.rule /\ run'.action = d.action
        /\ run'.current = d.current /\ run'.saving = d.saving
  <2>1. HasActed(extra, age)
    BY PollActs
  <2> QED
    BY <2>1, Zenon DEF HasActed
<1>2. /\ Series(metrics.cost)
      /\ "request_count" \in DOMAIN metrics => Series(metrics.request_count)
      /\ type = "EC2" /\ (\A i \in 1 .. N_POINTS : window.on[i]) =>
           \A i \in 1 .. 30 : metrics.cost[i] = 21
  BY Assembled DEF WatchInv
<1>3. type' = type /\ window' = window
  BY DEF Poll
<1>4. type \in {"EC2", "Lambda", "AutoScaling", "S3"}
  BY TypesOfWindow DEF WatchInv
<1> HIDE DEF metrics
<1>5. WindowOK'
  BY <1>3 DEF WatchInv, WindowOK, Measured
<1>6. RuleNeedsForest'
  <2> SUFFICES ASSUME class.rule = "CLF-001", OneJump(metrics.request_count),
                      "request_count" \in run'.byZ
               PROVE  FALSE
    BY <1>1 DEF RuleNeedsForest, OneJump
  <2>1. "request_count" \in DOMAIN metrics /\ ZscorePersistent(metrics.request_count)
    BY <1>1
  <2>2. Sustained(Sixty, metrics)
    BY <1>1, MatchedIsSustained
  <2> QED
    BY <1>2, <2>1, <2>2, AlertIsTooEarly
<1>7. /\ d.action \in TrendActions \cup {"NoAction", "Stop", "Resize"}
      /\ d.action = "Resize" => type = "EC2"
      /\ d.current = CurrentCost(d.action, metrics.cost)
      /\ \E tier \in {0, 2} : d.saving = SavingOf(d.action, judged, tier).dollars
  <2>1. /\ d.action \in AllowedActions(type, judged.anomaly) \cup {"NoAction"}
        /\ d.current = CurrentCost(d.action, metrics.cost)
        /\ \E tier \in Lookups : d.saving = SavingOf(d.action, judged, tier).dollars
    BY <1>1, Decided
  <2>2. Lookups \subseteq {0, 2}
    BY DEF Lookups, TIER
  <2> QED
    BY <1>4, <2>1, <2>2, Implemented
<1>8. PICK tier \in {0, 2} : d.saving = SavingOf(d.action, judged, tier).dollars
  BY <1>7
<1>9. SavingWithinCost'
  <2> SUFFICES ASSUME d.action # "NoAction",
                      d.action = "Resize" => \A i \in 1 .. N_POINTS : window.on[i]
               PROVE  d.saving <= d.current
    BY <1>1, <1>3 DEF SavingWithinCost
  <2>1. d.action = "Resize" => \A i \in 1 .. 30 : judged.metrics.cost[i] = 21
    BY <1>1, <1>2, <1>7
  <2>2. d.action \in TrendActions \cup {"Stop", "Resize"} /\ Series(judged.metrics.cost)
    BY <1>1, <1>2, <1>7
  <2> QED
    BY <1>1, <1>7, <1>8, <2>1, <2>2, SavingWithin
<1>10. AlertedRiseSaves'
  <2> SUFFICES ASSUME "cost" \in run'.byZ, OneJump(metrics.cost),
                      Last(metrics.cost) > Head(metrics.cost) + 1, d.action \in TrendActions
               PROVE  d.saving > 0
    BY <1>1 DEF AlertedRiseSaves, OneJump
  <2>1. ZscorePersistent(metrics.cost)
    BY <1>1
  <2>2. SavingOf(d.action, judged, tier) = TrendSaving(metrics.cost)
    BY <1>1 DEF SavingOf, TrendActions
  <2> QED
    BY <1>2, <1>8, <2>1, <2>2, RiseIsWorth
<1>11. FreshInstanceIsSpared'
  <2> SUFFICES ASSUME type = "EC2", LowUtilization(type, metrics, age) # "None", age # -1
               PROVE  \A i \in 1 .. N_POINTS - 1 : window.on[i]
    BY <1>1, <1>3 DEF FreshInstanceIsSpared
  <2>1. age \notin 0 .. 149
    BY DEF LowUtilization
  <2>2. \A i \in 1 .. N_POINTS : window.on[i]
    BY <2>1, OffIsYoung
  <2> QED
    BY <2>2 DEF N_POINTS
<1> QED
  BY <1>1, <1>5, <1>6, <1>9, <1>10, <1>11 DEF WatchInv, SavingsAreSound

\* The window slides.
LEMMA Slides ==
    ASSUME NEW S, NEW s \in [1 .. N_POINTS -> S], NEW x \in S
    PROVE  Append(Tail(s), x) \in [1 .. N_POINTS -> S]
<1>1. s \in Seq(S) /\ Len(s) = 30
  <2>1. 30 \in Nat
    OBVIOUS
  <2>2. s \in Seq(S)
    BY <2>1, SeqDef DEF N_POINTS
  <2> QED
    BY <2>2, LenProperties DEF N_POINTS
<1>2. 30 # 0 /\ 30 - 1 = 29 /\ 29 + 1 = 30
  OBVIOUS
<1>3. s # << >>
  <2>1. Len(<< >>) = 0
    BY EmptySeq
  <2> QED
    BY <1>1, <1>2, <2>1, Zenon
<1>4. Tail(s) \in Seq(S) /\ Len(Tail(s)) = 29
  <2>1. Tail(s) \in Seq(S) /\ Len(Tail(s)) = Len(s) - 1
    BY <1>1, <1>3, HeadTailProperties
  <2> QED
    BY <1>1, <1>2, <2>1, Zenon
<1> DEFINE t == Append(Tail(s), x)
<1>5. t \in Seq(S) /\ Len(t) = 30
  <2>1. t \in Seq(S) /\ Len(t) = Len(Tail(s)) + 1
    BY <1>4, AppendProperties
  <2> QED
    BY <1>2, <1>4, <2>1, Zenon
<1> HIDE DEF t
<1>6. t \in [1 .. Len(t) -> S]
  BY <1>5, LenProperties
<1> QED
  BY <1>5, <1>6, Zenon DEF N_POINTS, t

\* A reading arrives: the run that has acted goes on to its verification.
LEMMA ArriveKeeps ==
    ASSUME WatchInv, NEW r \in Readings[type], Arrive(r)
    PROVE  WatchInv'
<1>1. /\ type' = type
      /\ window' = [m \in DOMAIN r |-> Append(Tail(window[m]), r[m])]
  BY DEF Arrive
<1>2. /\ DOMAIN r = Measured(type)
      /\ \A m \in Measured(type) : r[m] \in IF m = "on" THEN BOOLEAN ELSE Nat
  BY WatchAssumption DEF WatchInv, WindowOK
<1>3. WindowOK'
  <2>1. \A m \in Measured(type) :
          Append(Tail(window[m]), r[m]) \in [1 .. N_POINTS -> IF m = "on" THEN BOOLEAN ELSE Nat]
    BY <1>2, Slides DEF WatchInv, WindowOK
  <2>2. DOMAIN window' = Measured(type)
    BY <1>1, <1>2
  <2>3. \A m \in Measured(type) : window'[m] = Append(Tail(window[m]), r[m])
    BY <1>1, <1>2
  <2>4. Measured(type)' = Measured(type)
    BY <1>1 DEF Measured
  <2> QED
    BY <1>1, <2>1, <2>2, <2>3, <2>4 DEF WatchInv, WindowOK
<1>4. "stage" \in DOMAIN run' /\ run'.stage # "acted"
  BY DEF Arrive, NoRun, WatchInv
<1> QED
  BY <1>3, <1>4 DEF WatchInv, RuleNeedsForest, SavingsAreSound, SavingWithinCost,
                    AlertedRiseSaves, FreshInstanceIsSpared

\* The verification ends the run.
LEMMA VerifyKeeps ==
    ASSUME WatchInv, NEW fetched \in BOOLEAN, NEW now \in Clock, Verify(fetched, now)
    PROVE  WatchInv'
<1>1. type' = type /\ window' = window
  BY DEF Verify
<1>2. PICK verdict : run' = [stage |-> "done", action |-> run.action, result |-> run.result,
                             forced |-> verdict.forced, pass |-> verdict.pass]
  BY Zenon DEF Verify
<1>3. "stage" \in DOMAIN run' /\ run'.stage # "acted"
  BY <1>2
<1>4. WindowOK'
  BY <1>1 DEF WatchInv, WindowOK, Measured
<1> QED
  BY <1>3, <1>4 DEF WatchInv, RuleNeedsForest, SavingsAreSound, SavingWithinCost,
                    AlertedRiseSaves, FreshInstanceIsSpared

\* The window keeps its shape, and a run that has acted is one the window explains.
THEOREM WatchIsSound == WatchSpec => []WatchInv
<1>1. WatchInit => WatchInv
  <2> SUFFICES ASSUME WatchInit PROVE WatchInv
    OBVIOUS
  <2>1. type \in Watched /\ run = NoRun
    BY DEF WatchInit
  <2>2. PICK r \in Readings[type] : window = [m \in DOMAIN r |-> [i \in 1 .. N_POINTS |-> r[m]]]
    BY DEF WatchInit
  <2>3. /\ DOMAIN r = Measured(type)
        /\ \A m \in Measured(type) : r[m] \in IF m = "on" THEN BOOLEAN ELSE Nat
    BY <2>1, WatchAssumption
  <2>4. WindowOK
    <3>1. /\ DOMAIN window = Measured(type)
          /\ \A m \in Measured(type) : window[m] = [i \in 1 .. N_POINTS |-> r[m]]
      BY <2>2, <2>3
    <3> QED
      BY <2>1, <2>3, <3>1 DEF WindowOK
  <2>5. "stage" \in DOMAIN run /\ run.stage # "acted"
    BY <2>1 DEF NoRun
  <2> QED
    BY <2>4, <2>5 DEF WatchInv, RuleNeedsForest, SavingsAreSound, SavingWithinCost,
                      AlertedRiseSaves, FreshInstanceIsSpared
<1>2. WatchInv /\ [WatchNext]_watchVars => WatchInv'
  <2> SUFFICES ASSUME WatchInv, [WatchNext]_watchVars PROVE WatchInv'
    OBVIOUS
  <2>1. CASE \E r \in Readings[type] : Arrive(r)
    BY <2>1, ArriveKeeps
  <2>2. CASE \E extra \in Extras, age \in Ages : Poll(extra, age)
    BY <2>2, PollKeeps
  <2>3. CASE \E fetched \in BOOLEAN, now \in Clock : Verify(fetched, now)
    BY <2>3, VerifyKeeps
  <2>4. CASE UNCHANGED watchVars
    <3>1. type' = type /\ window' = window /\ run' = run
      BY <2>4 DEF watchVars
    <3> QED
      BY <3>1 DEF WatchInv, WindowOK, Measured, RuleNeedsForest, OneJump, SavingsAreSound,
                  SavingWithinCost, AlertedRiseSaves, FreshInstanceIsSpared
  <2> QED
    BY <2>1, <2>2, <2>3, <2>4 DEF WatchNext
<1> QED
  BY <1>1, <1>2, PTL DEF WatchSpec

\* Where the requests of a group jump once within the window, at whatever point and to
\* whatever height, the z-score alert (detection_agent.py:264-293) never comes together
\* with the rule for EDoS (rule_engine.py:313-345): the alert is over before 60% of the
\* newest fifth are high, and what starts the rule is the forest.
THEOREM RuleDependsOnForest == WatchSpec => []RuleNeedsForest
<1>1. WatchInv => RuleNeedsForest
  BY DEF WatchInv
<1> QED
  BY <1>1, WatchIsSound, PTL

\* Whatever the readings, no saving of an action is larger than what its resource costs,
\* and a cost that jumped up by two units or more and raised the alert is worth something
\* to the action that curbs it (decision_agent.py:310-404, 980-997).
THEOREM SavingsStaySound == WatchSpec => []SavingsAreSound
<1>1. WatchInv => SavingsAreSound
  BY DEF WatchInv
<1> QED
  BY <1>1, WatchIsSound, PTL

\* An instance whose start is known gets no idle band for points it was off
\* (detection_agent.py:296-356).
THEOREM FreshIsSpared == WatchSpec => []FreshInstanceIsSpared
<1>1. WatchInv => FreshInstanceIsSpared
  BY DEF WatchInv
<1> QED
  BY <1>1, WatchIsSound, PTL
=============================================================================
