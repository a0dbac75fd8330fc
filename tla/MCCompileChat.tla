---------------------------- MODULE MCCompileChat ----------------------------
(* Small instances of CompileChat for TLC. *)
EXTENDS CompileChat

(* Conversations, by the roles of their messages.                          *)
Conversations ==
  { <<>>, <<"user">>, <<"user", "user">>, <<"user", "assistant", "user">>,
    <<"user", "call", "tool">>, <<"user", "call", "call", "tool">>,
    <<"user", "assistant", "assistant", "user">>,
    <<"user", "call", "tool", "assistant", "user">> }

MCSizes == {0, 4, 5, 9}

Texts == [form : {"text"}, size : MCSizes, more : {0}]

(* Arrays: the context before what the user has written, or all of it      *)
(* before an image.                                                        *)
Parts ==
  {[form |-> "parts", size |-> 1, more |-> 9], [form |-> "parts", size |-> 5, more |-> 4],
   [form |-> "parts", size |-> 0, more |-> 5]}

Contents(roles) ==
  {c \in [DOMAIN roles -> Texts \cup Parts] :
     \A n \in DOMAIN roles : roles[n] # "user" => c[n] \in Texts}

MCRequests ==
  UNION {{[n \in DOMAIN roles |-> [role |-> roles[n], form |-> c[n].form,
                                   size |-> c[n].size, more |-> c[n].more]] :
            c \in Contents(roles)} : roles \in Conversations}
=============================================================================
