------------------------- MODULE MCSeccompArtifact -------------------------
(***************************************************************************)
(* Small artifacts: up to three rules for one syscall, and the syscalls of *)
(* a multiplexer, beside every setting an artifact may not have.           *)
(***************************************************************************)
EXTENDS SeccompArtifact, MCSeccompMerge

MCNames == <<"bind", "read", "socket", "socketcall">>

ReadFilters ==
  {<<>>, <<A(0, "EQ", 1)>>, <<A(0, "EQ", 3)>>, <<A(0, "NE", 1)>>, <<Masked(0, 2, 2)>>,
   <<A(0, "EQ", 1), A(1, "EQ", 0)>>, <<A(0, "EQ", 1), A(0, "EQ", 2)>>}

ReadRules ==
  {<<E("read", "ALLOW", one), E("read", action, two)>> :
     one \in ReadFilters, action \in {"ALLOW", "LOG"}, two \in ReadFilters}
    \cup {<<E("read", "ALLOW", <<A(0, "EQ", 1)>>), E("read", "LOG", <<A(0, "EQ", value)>>),
            E("read", action, filter)>> :
            value \in {0, 1}, action \in {"ALLOW", "KILL"},
            filter \in {<<A(0, "EQ", 2)>>, <<A(1, "EQ", 0)>>, <<A(0, "EQ", 1), A(1, "EQ", 0)>>}}

ReadArtifacts ==
  {[P("ERRNO", rules) EXCEPT !.architectures = list] :
     rules \in ReadRules, list \in {{"x86_64"}, {"x86_64", "x32"}}}

MultiplexedArtifacts ==
  {[P("ERRNO", socket \o call \o bind) EXCEPT !.architectures = list] :
     socket \in SocketRules, call \in SocketcallRules, bind \in BindRules,
     list \in {{"x86_64"}, {"x86_64", "x86"}}}

FieldArtifacts ==
  {P("ERRNO", <<WithErrno(E("read", action, <<>>), errno)>>) :
     action \in {"LOG", "TRACE"}, errno \in {Unset, 2, 65538}}
    \cup {[P("ALLOW", <<>>) EXCEPT !.path = path, !.metadata = metadata, !.flags = flags] :
            path \in {NoPath, "a"}, metadata \in {"", "m"},
            flags \in {LeftToRuntime, {"LOG"}, {"WAIT_KILLABLE_RECV"}}}
    \cup {[P("ALLOW", <<E("read", "NOTIFY", <<>>)>>) EXCEPT !.path = path] :
            path \in {NoPath, "a"}}
    \cup {P("ALLOW", <<[E("read", "LOG", <<>>) EXCEPT !.names = {"bind", "read", "socket"}]>>),
          P("LOG", [i \in 1..4 |-> E("read", "ALLOW", <<A(0, "EQ", i % 2), A(1, "EQ", i \div 2)>>)]),
          P("LOG", <<E("read", "ALLOW", <<A(0, "EQ", 0), A(0, "EQ", 1), A(0, "EQ", 2), A(0, "EQ", 3)>>),
                     E("read", "KILL", <<A(0, "EQ", 1)>>)>>),
          Nil}

MCArtifacts == ReadArtifacts \cup MultiplexedArtifacts \cup FieldArtifacts

MCBaselines == {P("ALLOW", <<>>), [P("ALLOW", <<>>) EXCEPT !.architectures = {"x86_64", "x86"}],
                P("ERRNO", <<E("read", "ALLOW", <<A(0, "EQ", 1)>>)>>)}

MCNoProfiles == [n \in 1..2 |-> {}]
=============================================================================
