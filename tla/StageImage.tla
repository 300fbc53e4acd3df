---------------------------- MODULE StageImage ----------------------------
(***************************************************************************)
(* What dispatching a stage promises of its image, whatever the commands:  *)
(* the history written by commitToHistory only grows, each entry a         *)
(* command commits takes the next step number (the FROM is step 1, the    *)
(* base image's entries step 0), no step number passes the total the       *)
(* dispatcher announced, every entry committed with a layer adds one layer *)
(* to the stage root and every empty-layer entry adds none, and the stage  *)
(* finishes having used exactly the announced total.                       *)
(*                                                                         *)
(* The update and download steps of ADD --apt are committed together,      *)
(* before the Solve that reads the install listing: CommitEmptyPair.       *)
(***************************************************************************)
EXTENDS Naturals, Sequences

CONSTANTS
  BaseLayers,  \* layers (and history entries) of the base image
  Labels       \* what a history entry says created it

VARIABLES
  history,  \* the image history
  layers,   \* the number of filesystem layers of the stage root
  total,    \* the step total announced as [i/total]
  done      \* the stage has been dispatched completely

vars == <<history, layers, total, done>>

Entry(label, step, withLayer) == [label |-> label, step |-> step, empty |-> ~withLayer]

(* The step number of the next entry: the stage's first command is step 2. *)
NextStep == Len(history) - BaseLayers + 2

Init ==
  /\ history = [k \in 1..BaseLayers |-> Entry("base", 0, TRUE)]
  /\ layers = BaseLayers
  /\ total \in Nat
  /\ done = FALSE

(* A command commits one entry, with a layer on the root or without one.  *)
Commit(label, withLayer) ==
  /\ ~done
  /\ NextStep <= total
  /\ history' = Append(history, Entry(label, NextStep, withLayer))
  /\ layers' = IF withLayer THEN layers + 1 ELSE layers
  /\ UNCHANGED <<total, done>>

(* Two consecutive steps committed at once, neither with a layer.          *)
CommitEmptyPair(label1, label2) ==
  /\ ~done
  /\ NextStep + 1 <= total
  /\ history' = history \o << Entry(label1, NextStep, FALSE),
                              Entry(label2, NextStep + 1, FALSE) >>
  /\ UNCHANGED <<layers, total, done>>

(* The last step announced has been committed: the stage is complete.      *)
Finish ==
  /\ ~done
  /\ NextStep = total + 1
  /\ done' = TRUE
  /\ UNCHANGED <<history, layers, total>>

Next ==
  \/ \E l \in Labels, w \in BOOLEAN : Commit(l, w)
  \/ \E l1, l2 \in Labels : CommitEmptyPair(l1, l2)
  \/ Finish

Spec == Init /\ [][Next]_vars

=============================================================================
