----------------------------- MODULE Detection -----------------------------
(***************************************************************************)
(* The Isolation Forest of pipeline/detection_agent.py and its two files:  *)
(* the model and the buffer of training windows.  Every process that runs  *)
(* detection_node (the polling loop, a demo script, the comparison         *)
(* programs) loads, extends and rewrites both files whole; nothing locks   *)
(* them.  A file that is being written reads as no file at all.            *)
(***************************************************************************)
EXTENDS Naturals, Sequences, FiniteSets, FiniteSetsExt, SequencesExt

CONSTANTS Procs,        \* processes that run detection_node
          Types,        \* resource types
          Unfrozen,     \* MOCK_SEED_BUFFER_UNFROZEN_TYPES
          Seeded,       \* types with windows from seed_mock_iforest_buffer.py
          MaxWindows,   \* MAX_WINDOWS_PER_TYPE
          RetrainEvery, \* RETRAIN_EVERY_N_NEW_WINDOWS
          MaxCrashes,   \* bound: processes killed at work
          MaxOverlaps   \* bound: calls begun while another is under way

ASSUME DetectionAssumption ==
    /\ Unfrozen \subseteq Types /\ Seeded \subseteq Types
    /\ MaxWindows \in Nat \ {0} /\ RetrainEvery \in Nat \ {0} /\ MaxCrashes \in Nat
    /\ MaxOverlaps \in Nat

VARIABLES
    model,    \* iforest_unified.pkl: the windows it was fitted on, or Unreadable
    buffer,   \* iforest_unified_train_buffer.pkl, or Unreadable
    proc,     \* proc[p]: where p's call of detection_node is, and its data
    crashes,  \* processes killed so far
    overlaps  \* calls begun while another was under way

vars == <<model, buffer, proc, crashes, overlaps>>

----------------------------------------------------------------------------
(* Windows and what the checks say of them.                                *)

\* A window is its type and a number; 0 is the mock window of the seeding.
Seed(t) == <<t, 0>>

\* What is seen of 30 points: "spike" has a z-score at or over 2.475, "uneven"
\* only recent outliers, "short" fewer than 5 points, "calm" none of it.
Shapes == {"calm", "uneven", "spike", "short"}

\* _model_independent_seed_check: z-score and the window's own forest.
LooksNormal(shape) == shape = "calm"

\* The check of a type the model was fitted on: low score and low z-score.
ScoresNormal(shape, low) == shape \in {"calm", "uneven"} /\ low

----------------------------------------------------------------------------
(* The two files.                                                          *)

NoBuffer == [t \in Types |-> <<>>]

UnreadableModel  == [readable |-> FALSE, windows |-> {}]
UnreadableBuffer == [readable |-> FALSE, byType |-> NoBuffer, pending |-> 0]

Windows(byType) == UNION {ToSet(byType[t]) : t \in Types}

BufferFile(byType, n) == [readable |-> TRUE, byType |-> byType, pending |-> n]
ModelFile(byType)     == [readable |-> TRUE, windows |-> Windows(byType)]

SeedBuffer == [t \in Types |-> IF t \in Seeded THEN <<Seed(t)>> ELSE <<>>]

\* _load_training_buffer: no file, or none that can be read, is an empty buffer.
LoadTrainingBuffer == IF buffer.readable THEN buffer ELSE BufferFile(NoBuffer, 0)

----------------------------------------------------------------------------
(* Adoption of a window.                                                   *)

Idle == [at |-> "idle", type |-> "", shape |-> "calm", again |-> FALSE,
         byType |-> NoBuffer, pending |-> 0, fit |-> FALSE, adopted |-> 0]

\* A number no file and no process uses for a window.
FreshWindow(t) ==
    LET used == model.windows \cup Windows(buffer.byType)
                 \cup UNION {Windows(proc[p].byType) : p \in Procs}
    IN  <<t, Min({i \in 1 .. Cardinality(used) + 1 : <<t, i>> \notin used})>>

\* The type's windows, the oldest one leaving at the limit.
Adopt(byType, t, w) ==
    LET bucket == Append(byType[t], w)
    IN  [byType EXCEPT ![t] =
            IF Len(bucket) > MaxWindows THEN Tail(bucket) ELSE bucket]

\* Five new windows, or the first one of a type, start a training.
Retrain(adopted, unseen, n) == n >= RetrainEvery \/ (adopted /\ unseen)

----------------------------------------------------------------------------
(* One call of detection_node by process p.                                *)

Init ==
    /\ model = IF Seeded = {} THEN UnreadableModel ELSE ModelFile(SeedBuffer)
    /\ buffer = IF Seeded = {} THEN UnreadableBuffer ELSE BufferFile(SeedBuffer, 0)
    /\ proc = [p \in Procs |-> Idle]
    /\ crashes = 0
    /\ overlaps = 0

Goto(p, rec) == proc' = [proc EXCEPT ![p] = rec]

Busy == {p \in Procs : proc[p].at # "idle"}

Begin(p, t, shape) ==
    /\ proc[p].at = "idle"
    /\ Goto(p, [Idle EXCEPT !.at = "model", !.type = t, !.shape = shape])
    /\ overlaps' = overlaps + IF Busy = {} THEN 0 ELSE 1
    /\ overlaps' <= MaxOverlaps
    /\ UNCHANGED <<model, buffer, crashes>>

\* _iforest_score_and_trigger asks again when it is handed no model.
NoModel(p) ==
    IF proc[p].again THEN Idle
    ELSE [Idle EXCEPT !.at = "model", !.type = proc[p].type, !.shape = proc[p].shape,
                      !.again = TRUE, !.adopted = proc[p].adopted]

\* Mutant: the model of the first call is not handed on.
GotModel_NotHandedOn(p) == NoModel(p)

\* The model is there: the score follows from it, no file is touched any more.
GotModel(p) == Idle

\* Mutant: no type is frozen.
Frozen_Ignored(t) == FALSE

Frozen(t) == t \notin Unfrozen

\* _load_cached_model and what _get_or_train_iforest makes of it: the frozen
\* types take the model as it is, the others go on to the buffer; without a
\* model the window itself becomes the training data, whatever its type.
LoadCachedModel(p) ==
    LET t == proc[p].type
        w == FreshWindow(t)
    IN
    /\ proc[p].at = "model"
    /\ \/ /\ model.readable
          /\ Goto(p, IF Frozen(t) THEN GotModel(p) ELSE [proc[p] EXCEPT !.at = "buffer"])
       \/ /\ ~ model.readable /\ LooksNormal(proc[p].shape)
          /\ Goto(p, [Idle EXCEPT !.at = "fit", !.type = t, !.adopted = proc[p].adopted + 1,
                               !.byType = Adopt(NoBuffer, t, w)])
       \/ /\ ~ model.readable /\ ~ LooksNormal(proc[p].shape)
          /\ Goto(p, NoModel(p))
    /\ UNCHANGED <<model, buffer, crashes, overlaps>>

\* The window is judged and, if it looks normal, adopted in p's copy.
JudgeWindow(p) ==
    LET t == proc[p].type
        loaded == LoadTrainingBuffer
        unseen == loaded.byType[t] = <<>>
    IN
    /\ proc[p].at = "buffer"
    /\ \/ /\ proc[p].shape = "short"
          /\ Goto(p, GotModel(p))
       \/ /\ proc[p].shape # "short"
          /\ \E low \in BOOLEAN :
              LET adopted == IF unseen THEN LooksNormal(proc[p].shape)
                             ELSE ScoresNormal(proc[p].shape, low)
                  new     == IF adopted THEN 1 ELSE 0
                  byType  == IF adopted THEN Adopt(loaded.byType, t, FreshWindow(t))
                             ELSE loaded.byType
              IN Goto(p, [Idle EXCEPT
                    !.at = "save", !.type = t,
                    !.byType = byType,
                    !.pending = loaded.pending + new,
                    !.adopted = proc[p].adopted + new,
                    !.fit = /\ Retrain(adopted, unseen, loaded.pending + new)
                            /\ Windows(byType) # {}])
    /\ UNCHANGED <<model, buffer, crashes, overlaps>>

\* open(..., "wb") empties the file before the new content is written.
TruncateBuffer(p) ==
    /\ proc[p].at \in {"save", "reset"}
    /\ buffer' = UnreadableBuffer
    /\ Goto(p, [proc[p] EXCEPT !.at = IF @ = "save" THEN "saving" ELSE "resetting"])
    /\ UNCHANGED <<model, crashes, overlaps>>

\* Mutant: the count is reset when the training is decided.
SaveTrainingBuffer_ResetsEarly(p) ==
    /\ proc[p].at = "saving"
    /\ buffer' = BufferFile(proc[p].byType, IF proc[p].fit THEN 0 ELSE proc[p].pending)
    /\ Goto(p, IF proc[p].fit THEN [proc[p] EXCEPT !.at = "fit"] ELSE GotModel(p))
    /\ UNCHANGED <<model, crashes, overlaps>>

\* _save_training_buffer, with the window adopted or not.
SaveTrainingBuffer(p) ==
    /\ proc[p].at = "saving"
    /\ buffer' = BufferFile(proc[p].byType, proc[p].pending)
    /\ Goto(p, IF proc[p].fit THEN [proc[p] EXCEPT !.at = "fit"] ELSE GotModel(p))
    /\ UNCHANGED <<model, crashes, overlaps>>

\* _fit_and_cache_unified: the model file is emptied, then written.
TruncateModel(p) ==
    /\ proc[p].at = "fit"
    /\ model' = UnreadableModel
    /\ Goto(p, [proc[p] EXCEPT !.at = "fitting"])
    /\ UNCHANGED <<buffer, crashes, overlaps>>

SaveModel(p) ==
    /\ proc[p].at = "fitting"
    /\ model' = ModelFile(proc[p].byType)
    /\ Goto(p, [proc[p] EXCEPT !.at = "reset"])
    /\ UNCHANGED <<buffer, crashes, overlaps>>

\* The count starts again; after a cold start the buffer is that one window.
ResetCount(p) ==
    /\ proc[p].at = "resetting"
    /\ buffer' = BufferFile(proc[p].byType, 0)
    /\ Goto(p, GotModel(p))
    /\ UNCHANGED <<model, crashes, overlaps>>

\* The stop button or a host failure ends the process wherever it is.
Crash(p) ==
    /\ proc[p].at # "idle" /\ crashes < MaxCrashes
    /\ Goto(p, Idle)
    /\ crashes' = crashes + 1
    /\ UNCHANGED <<model, buffer, overlaps>>

GetOrTrainIforest(p) ==
    \/ LoadCachedModel(p) \/ JudgeWindow(p) \/ TruncateBuffer(p)
    \/ SaveTrainingBuffer(p) \/ TruncateModel(p) \/ SaveModel(p) \/ ResetCount(p)

Next ==
    \E p \in Procs :
        \/ \E t \in Types, shape \in Shapes : Begin(p, t, shape)
        \/ GetOrTrainIforest(p)
        \/ Crash(p)

Spec == Init /\ [][Next]_vars
=============================================================================
