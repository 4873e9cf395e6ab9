----------------------------- MODULE MCHandlers -----------------------------
(* An instance of Handlers for TLC.                                        *)
EXTENDS Handlers

MCUsers == {"u1", "u2", "u3"}
MCGroups == {"g1", "g2", "g3"}
MCNames == {"n1", "n2"}

\* What these requests, one after the other, leave behind: u1, u2 and u3 sign
\* up; u1 creates g1 and g2; u2 is accepted in g1, uploads n1, has downloaded
\* n2 and is downloading n1; u3 asks to join g1 and logs out.
MCStored ==
  [f \in Files |->
     CASE f = Credential -> {<<"u1">>, <<"u2">>, <<"u3">>}
       [] f = Online -> {<<"u1">>, <<"u2">>}
       [] f = Group -> {<<"g1", "u1">>, <<"g2", "u1">>}
       [] f = Pending -> {<<"u3", "g1">>}
       [] f = MembersOf("g1") -> {<<"u1">>, <<"u2">>}
       [] f = MembersOf("g2") -> {<<"u1">>}
       [] f = FilesOf("g1") -> {<<"u2", "n1">>}
       [] f = UserFiles("u2") -> {<<"g1", "n1">>}
       [] f = Downloading("u2") -> {<<"g1", "n1">>}
       [] f = Downloaded("u2") -> {<<"g1", "n2">>}
       [] OTHER -> {}]

R(cmd, u, n) == [cmd |-> cmd, user |-> u, group |-> "g1", name |-> n, who |-> "u3"]

\* Every command, by the user for whom it changes most; create_user and
\* create_group with names that are taken, too.
MCRequests ==
  {R("login", "u3", "n1"), R("create_user", "u2", "n1"), R("create_group", "u2", "n1"),
   [R("create_group", "u2", "n1") EXCEPT !.group = "g3"],
   R("list_groups", "u1", "n1"), R("list_files", "u1", "n1"),
   [R("join_group", "u3", "n1") EXCEPT !.group = "g2"], R("accept_request", "u1", "n1"),
   R("upload_file", "u2", "n1"), R("upload_file", "u2", "n2"),
   R("stop_share", "u2", "n1"), R("leave_group", "u2", "n1"),
   R("give_sha", "u2", "n2"), R("add_file", "u2", "n1"), R("add_file", "u2", "n2"),
   R("complete", "u2", "n1"), R("logout", "u1", "n1"), R("send_full_path", "u2", "n1")}
=============================================================================
