--------------------------- MODULE ProgramMemory ---------------------------
(***************************************************************************)
(* What gdbserver promises its client about the memory of a process: what  *)
(* is read is what the program has there.  The memory changes when the     *)
(* client writes it or when the program maps or unmaps a library, and      *)
(* never because gdbserver plants, lifts, steps over or forgets a          *)
(* breakpoint or a jump; and the client sees each change at once.          *)
(***************************************************************************)
CONSTANTS Addr,     \* addresses of the cells
          Lib,      \* the cells of a library that may come and go
          Data,     \* what the program has in a cell
          Absent    \* stands for the content of a cell that is not mapped

VARIABLES content,  \* the memory
          window    \* what reading it through gdbserver gives

vars == <<content, window>>

Init ==
  /\ content \in [Addr -> Data]
  /\ window = content

(* The client writes one cell.                                             *)
Store(a, d) ==
  /\ content[a] # Absent
  /\ content' = [content EXCEPT ![a] = d]
  /\ window' = content'

(* The library goes away, or comes (back) with any code.                   *)
Unmap ==
  /\ content' = [a \in Addr |-> IF a \in Lib THEN Absent ELSE content[a]]
  /\ window' = content'

Map(code) ==
  /\ content' = [a \in Addr |-> IF a \in Lib THEN code[a] ELSE content[a]]
  /\ window' = content'

Next ==
  \/ \E a \in Addr, d \in Data : Store(a, d)
  \/ Unmap
  \/ \E code \in [Lib -> Data] : Map(code)

Spec == Init /\ [][Next]_vars
=============================================================================
