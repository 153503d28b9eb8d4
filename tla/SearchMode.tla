---------------------------- MODULE SearchMode ----------------------------
(***************************************************************************)
(* The C-R mode of the shell client (doSearch, src/cmd/mysh/mysh.go): what *)
(* each key does to the commands found, the one among them that is         *)
(* selected, the length of the text typed, and the command on the screen.  *)
(* Drawing is left out.  Sequences start at 1, so candidateCommandsIndex i *)
(* is index i + 1 here, and its -1 is 0.                                   *)
(***************************************************************************)
EXTENDS Integers, Sequences

CONSTANT Nothing    \* the empty command ""

Opened ==
    [candidates |-> <<>>, index |-> 1, searchIndex |-> 0, lastView |-> Nothing]

SelectPrevious_NoWrap(s) == [s EXCEPT !.index = @ - 1]     \* mutant

(* C-R and the up key: candidateCommandsIndex - 1, from the first command to
   the last; with no command at all, to -1. *)
SelectPrevious(s) ==
    [s EXCEPT !.index = IF @ - 1 < 1 THEN Len(s.candidates) ELSE @ - 1]

SelectNext_NoWrap(s) == [s EXCEPT !.index = @ + 1]         \* mutant

(* The down key: from the last command to the first. *)
SelectNext(s) ==
    [s EXCEPT !.index = IF @ + 1 > Len(s.candidates) THEN 1 ELSE @ + 1]

(* A character is appended; the selection starts again. *)
Type(s) == [s EXCEPT !.index = 1, !.searchIndex = @ + 1]

(* Backspace; when no text is left there is one candidate, "". *)
Backspace(s) ==
    IF s.searchIndex - 1 < 1
    THEN [s EXCEPT !.index = 1, !.searchIndex = 0, !.candidates = <<Nothing>>]
    ELSE [s EXCEPT !.index = 1, !.searchIndex = @ - 1]

(* What a search that succeeds, or one that fails three times, leaves. *)
Found(s, commands) == [s EXCEPT !.candidates = commands]

(* displaySearchStatus and displayCommand: out of range, the command that was
   on the screen stays. *)
Display(s) ==
    IF s.index \in DOMAIN s.candidates
    THEN [s EXCEPT !.lastView = s.candidates[s.index]]
    ELSE s

=============================================================================
