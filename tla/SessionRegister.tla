-------------------------- MODULE SessionRegister --------------------------
(***************************************************************************)
(* What session.Sess promises to the rest of the agent, whoever calls it:  *)
(* a register that names the current session.  A session is new when it    *)
(* enters the register; the register gives a session up only because that  *)
(* very session has ended, which is then announced, once, or because a     *)
(* newer one took its place.                                               *)
(***************************************************************************)
EXTENDS Naturals

VARIABLES cur,   \* the current session; 0 when there is none
          made,  \* sessions are numbered as they are made, up to made
          ended  \* the sessions whose end was announced

Init == cur = 0 /\ made = 0 /\ ended = {}

Open == /\ made' = made + 1
        /\ cur' = made + 1
        /\ UNCHANGED ended

End == /\ cur # 0 /\ cur \notin ended
       /\ cur' = 0
       /\ ended' = ended \cup {cur}
       /\ UNCHANGED made

Next == Open \/ End

Spec == Init /\ [][Next]_<<cur, made, ended>>
=============================================================================
