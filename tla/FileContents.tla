----------------------------- MODULE FileContents -----------------------------
(***************************************************************************)
(* What a JSON file can hold besides a value.  The code writes a file in   *)
(* place (writeFile truncates it first), so a reader, or a process that    *)
(* starts after a crash, can find a part of a value, which does not parse. *)
(***************************************************************************)
CONSTANTS
    Absent,   \* undefined: there is no file, or no value
    Torn      \* a value that is half written

ASSUME ContentsOK == Absent # Torn
===============================================================================
