------------------------------- MODULE MCStream -------------------------------
(***************************************************************************)
(* The requests with which TLC runs Stream.  The digest has one byte, the  *)
(* one with which packets start; usernames have one or two.  A limit of 2  *)
(* stands for the 12 contacts that the client asks for at a time.          *)
(***************************************************************************)
EXTENDS Stream

digest == <<STARTING_SEQ>>
a == <<97>>
e_acute == <<195, 169>>  \* two bytes of UTF-8
one == <<49>>

MCRequests ==
    { login(a, digest), login(e_acute, digest),
      register_user(<< >>, digest),  \* prompt_registration has no minimum
      register_user(a, digest), register_user(e_acute, digest),
      add_contact(a, one), add_contact(e_acute, one), add_contact(<< >>, one),
      delete_contact(a), delete_contact(<< >>),
      search_contact(2, << >>) }

MCContacts == { <<a, one>>, <<e_acute, one>> }
=============================================================================
