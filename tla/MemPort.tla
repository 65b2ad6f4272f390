------------------------------- MODULE MemPort ------------------------------
(***************************************************************************)
(* What the MEM stage is promised: one access at a time, atomic.           *)
(***************************************************************************)
EXTENDS MemAccess

VARIABLES
  mem,
  req,          \* the access in the MEM stage, or None
  result        \* what the last load returned
vars == <<mem, req, result>>

NewRequest == req' \in Requests \cup {None}

\* No access: the stage moves on.
Pass == req = None /\ NewRequest /\ UNCHANGED <<mem, result>>

Load == /\ req.op = "read"
        /\ result' = Loaded(mem, req)
        /\ NewRequest
        /\ UNCHANGED mem

Store == /\ req.op = "write"
         /\ mem' = Stored(mem, req)
         /\ NewRequest
         /\ UNCHANGED result

\* A reset abandons the access.  A store that crosses into a second word may
\* have reached only the first.
FirstWord(memory, r) == [memory EXCEPT ![r.word] = Stored(memory, r)[r.word]]
Reset == /\ req' = None
         /\ result' = result
         /\ \/ mem' = mem
            \/ req.op = "write" /\ mem' = FirstWord(mem, req)
            \/ req.op = "write" /\ mem' = Stored(mem, req)

Init == mem \in [WordAddr -> Bytes] /\ req = None /\ result = [l \in Lane |-> 0]
Next == Pass \/ Load \/ Store \/ Reset
Spec == Init /\ [][Next]_vars
=============================================================================
