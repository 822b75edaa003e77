------------------------------ MODULE MCUserFile ------------------------------
(***************************************************************************)
(* The accounts with which TLC runs UserFile.  Usernames of two lengths;   *)
(* one digest is made of bytes that are the length of a username, so that  *)
(* a scan out of frame takes them for records, the other of long ones.     *)
(***************************************************************************)
EXTENDS UserFile

anna == <<97, 110, 110, 97>>
mario == <<109, 97, 114, 105, 111>>

DigestOf(b) == [i \in 1 .. PASSWORD_LEN |-> b]

MCCredentials == {<<anna, DigestOf(4)>>, <<anna, DigestOf(200)>>, <<mario, DigestOf(4)>>}
=============================================================================
