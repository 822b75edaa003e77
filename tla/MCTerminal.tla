------------------------------ MODULE MCTerminal ------------------------------
(***************************************************************************)
(* The lines with which TLC runs Terminal: at each prompt a short one, and *)
(* those around the size of its buffer.                                    *)
(***************************************************************************)
EXTENDS Terminal

Of(n, c) == [i \in 1 .. n |-> c]

MCLines ==
    [ auth          |-> {<<"1">>, <<"2">>, <<"q">>, << >>},
      menu          |-> {<<"1">>, <<"2">>, <<"3">>, <<"q">>, <<"1", "2">>},
      username      |-> {Of(3, "a"), Of(4, "a"), Of(32, "1")},
      password      |-> {Of(1, "a"), Of(32, "1")},
      new_username  |-> {Of(3, "a"), Of(33, "1")},
      new_password  |-> {Of(1, "a"), Of(32, "1")},
      name          |-> {Of(1, "a"), Of(128, "1")},
      phone         |-> {Of(1, "1"), Of(20, "1"), Of(21, "1")},
      target        |-> {Of(1, "a"), Of(128, "3")},
      query         |-> {<< >>, Of(129, "1")},
      command       |-> {<<"p", "e", "r", "m">>, <<"q", "u", "i", "t">>, Of(1, "a"), Of(31, "a")},
      perm_username |-> {Of(4, "a"), Of(31, "a"), Of(32, "1")},
      perm_level    |-> {<<"0">>, <<"q">>, <<"3">>, << >>} ]
=============================================================================
