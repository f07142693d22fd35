---------------------------- MODULE LinearHistory ----------------------------
(***************************************************************************)
(* What an author is promised of undo (the documentation of               *)
(* command_stack.rs, command.rs and intent.rs): one line of documents with *)
(* a cursor in it.  An edit drops what lies ahead of the cursor; undo and  *)
(* redo walk the line.  While a sketch is open the edits make a line of    *)
(* their own, which Finish folds into the outer one as a single step and   *)
(* Cancel throws away, back to the document the sketch was entered with.   *)
(*                                                                         *)
(* An edit may make any document, so doc' is left free in Edit: the module *)
(* is for implementing, not for exploring on its own.                      *)
(***************************************************************************)
EXTENDS Naturals, Sequences

VARIABLES
    doc,        \* the document shown
    past,       \* the documents behind it, oldest first
    future,     \* the documents undone, next to be redone last
    session     \* the open sketch's own line: at most one [past, future]

vars == <<doc, past, future, session>>

\* The end of a line, and the line without it.
Last(line) == line[Len(line)]
Front(line) == SubSeq(line, 1, Len(line) - 1)

Init == past = <<>> /\ future = <<>> /\ session = {}

Open == session # {}
Inner == CHOOSE line \in session : TRUE

\* Where an open sketch was entered: the document Cancel returns to.
Entered == IF Open /\ Inner.past # <<>> THEN Head(Inner.past) ELSE doc

Edit ==
    IF Open
    THEN /\ session' = {[past |-> Append(Inner.past, doc), future |-> <<>>]}
         /\ UNCHANGED <<past, future>>
    ELSE /\ past' = Append(past, doc)
         /\ future' = <<>>
         /\ UNCHANGED session

UndoInner ==
    /\ Open /\ Inner.past # <<>>
    /\ doc' = Last(Inner.past)
    /\ session' = {[past |-> Front(Inner.past), future |-> Append(Inner.future, doc)]}
    /\ UNCHANGED <<past, future>>

UndoOuter ==
    /\ ~Open /\ past # <<>>
    /\ doc' = Last(past)
    /\ past' = Front(past)
    /\ future' = Append(future, doc)
    /\ UNCHANGED session

RedoInner ==
    /\ Open /\ Inner.future # <<>>
    /\ doc' = Last(Inner.future)
    /\ session' = {[past |-> Append(Inner.past, doc), future |-> Front(Inner.future)]}
    /\ UNCHANGED <<past, future>>

RedoOuter ==
    /\ ~Open /\ future # <<>>
    /\ doc' = Last(future)
    /\ past' = Append(past, doc)
    /\ future' = Front(future)
    /\ UNCHANGED session

Begin ==
    /\ ~Open
    /\ session' = {[past |-> <<>>, future |-> <<>>]}
    /\ UNCHANGED <<doc, past, future>>

\* A session that changed nothing files nothing, and leaves the redo line be.
Finish ==
    /\ Open
    /\ session' = {}
    /\ doc' = doc
    /\ IF Inner.past = <<>> THEN UNCHANGED <<past, future>>
       ELSE past' = Append(past, Entered) /\ future' = <<>>

Cancel ==
    /\ Open
    /\ doc' = Entered
    /\ session' = {}
    /\ UNCHANGED <<past, future>>

Next == \/ Edit \/ UndoInner \/ UndoOuter \/ RedoInner \/ RedoOuter
        \/ Begin \/ Finish \/ Cancel

Spec == Init /\ [][Next]_vars

=============================================================================
