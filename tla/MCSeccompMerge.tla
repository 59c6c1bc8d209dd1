--------------------------- MODULE MCSeccompMerge ---------------------------
(***************************************************************************)
(* Small instances of the seccomp merge: profiles with rules for one       *)
(* syscall, for the syscalls of a multiplexer, and with every other field. *)
(***************************************************************************)
EXTENDS SeccompDiff, SeccompBare, TLC

\* Values of two bits.
MCAnd == [pair \in (0..3) \X (0..3) |->
            LET a == pair[1] b == pair[2] IN
            (a % 2) * (b % 2) + 2 * ((a \div 2) * (b \div 2))]

MCAndOfOneBit == [pair \in (0..1) \X (0..1) |-> pair[1] * pair[2]]

MCArchitectures == {"x86_64", "x86", "x32", "ppc64"}
MCNarrow == {"x86", "x32"}
MCMultiplexing == {"x86", "ppc64"}

OneName == <<"read">>
NoMultiplexers == <<>>
NoneCarried == [target \in {} |-> <<>>]

-----------------------------------------------------------------------------
A(index, op, value) == [index |-> index, op |-> op, value |-> value, two |-> 0]
Masked(index, mask, value) == [index |-> index, op |-> "MASKED_EQ", value |-> mask, two |-> value]

E(name, action, conds) == [names |-> {name}, action |-> action, errno |-> Unset, args |-> conds]
WithErrno(entry, errno) == [entry EXCEPT !.errno = errno]

P(default, entries) ==
  [default |-> default, errno |-> Unset, entries |-> entries, architectures |-> {},
   flags |-> {}, path |-> NoPath, metadata |-> ""]

-----------------------------------------------------------------------------
(* One syscall, every value of 32 bits *)

Filters ==
  {<<>>, <<A(0, "EQ", 1)>>, <<A(0, "NE", 1)>>, <<A(0, "LT", 2)>>, <<A(0, "LE", 1)>>,
   <<A(0, "GE", 2)>>, <<Masked(0, 1, 1)>>, <<A(1, "EQ", 0)>>,
   <<A(0, "EQ", 1), A(1, "EQ", 0)>>, <<A(0, "EQ", 1), A(0, "EQ", 2)>>}

FewFilters == {<<>>, <<A(0, "EQ", 1)>>, <<A(0, "EQ", 3)>>, <<A(0, "GE", 2)>>, <<A(1, "EQ", 0)>>}

OneRule(default, actions, filters) ==
  {P(default, <<E("read", action, filter)>>) : action \in actions, filter \in filters}

TwoRules(default, first, second, filters) ==
  {P(default, <<E("read", first, one), E("read", second, two)>>) :
     one \in filters, two \in filters}

RuleProfiles ==
  OneRule("ERRNO", {"ALLOW", "LOG", "KILL"}, Filters)
    \cup OneRule("ALLOW", {"ERRNO", "LOG"}, Filters)
    \cup TwoRules("ERRNO", "ALLOW", "ALLOW",
                  {<<A(0, "EQ", 1)>>, <<A(0, "EQ", 3)>>, <<A(0, "GE", 2)>>})
    \cup TwoRules("ERRNO", "ALLOW", "LOG",
                  {<<A(0, "EQ", 1)>>, <<A(0, "GE", 2)>>, <<A(1, "EQ", 0)>>})
    \cup TwoRules("ALLOW", "ERRNO", "LOG", {<<>>, <<A(0, "EQ", 1)>>, <<A(1, "EQ", 0)>>})
    \cup {P("ERRNO", <<>>), P("ALLOW", <<>>), P("LOG", <<>>)}

\* Three of them, with errno values of their own.
TripleProfiles ==
  OneRule("ERRNO", {"ALLOW"}, FewFilters)
    \cup OneRule("ALLOW", {"LOG", "TRAP"}, {<<A(0, "EQ", 1)>>, <<A(0, "GE", 2)>>})
    \cup {P("ERRNO", <<WithErrno(E("read", "ERRNO", filter), 2)>>) :
            filter \in {<<>>, <<A(0, "EQ", 1)>>, <<A(1, "EQ", 0)>>}}
    \cup {P("ALLOW", <<WithErrno(E("read", "ERRNO", <<A(0, "EQ", 1)>>), 65538)>>),
          P("KILL_THREAD", <<E("read", "ERRNO", <<A(0, "NE", 3)>>)>>),
          [P("ERRNO", <<E("read", "ALLOW", <<A(0, "NE", 3)>>)>>) EXCEPT !.errno = 2],
          [P("ERRNO", <<E("read", "ERRNO", <<>>), E("read", "ALLOW", <<A(1, "EQ", 0)>>)>>)
             EXCEPT !.errno = 2],
          P("ALLOW", <<>>)}

-----------------------------------------------------------------------------
(* Two syscalls, past the budgets *)

TwoNames == <<"open", "read">>

BudgetProfiles ==
  LET both == {[E("read", "ALLOW", filter) EXCEPT !.names = {"open", "read"}] :
                 filter \in {<<>>, <<A(0, "EQ", 1)>>, <<A(0, "GE", 2)>>}}
      sets == {<<A(0, "EQ", 1)>>, <<A(0, "GE", 2)>>, <<A(1, "EQ", 0)>>}
  IN {P("ERRNO", <<one, E("read", action, filter)>>) :
        one \in both, action \in {"LOG", "TRAP"}, filter \in {<<A(0, "EQ", 1)>>, <<A(1, "EQ", 0)>>}}
       \cup {P("ALLOW", <<E("read", "ERRNO", one), E("read", "LOG", two), E("open", "LOG", one)>>) :
               one \in sets, two \in {<<A(0, "GE", 2)>>, <<A(1, "EQ", 0)>>}}
       \cup OneRule("ERRNO", {"ALLOW"}, {<<>>, <<A(0, "EQ", 1)>>, <<A(1, "EQ", 0)>>})

\* Filters spelled in other ways, past the budget and within it, rules that
\* libseccomp takes in one order only, a hidden rule, and two profiles that
\* differ although their syscalls are summarized alike.
RespelledProfiles ==
  LET logged == E("read", "LOG", <<A(0, "EQ", 1)>>)
      allowed == E("read", "ALLOW", <<A(0, "EQ", 0)>>)
      other == E("read", "ALLOW", <<A(1, "EQ", 0)>>)
  IN {P("ERRNO", rules) :
        rules \in {<<logged, allowed>>, <<allowed, logged>>, <<logged, logged, allowed>>,
                   <<logged, other, logged>>, <<logged, allowed, allowed>>,
                   <<logged, other>>, <<other, logged>>, <<E("read", "ALLOW", <<>>), logged>>}}
       \cup {P("KILL", <<logged>>), P("KILL_THREAD", <<logged>>),
             [P("ERRNO", <<logged, allowed>>) EXCEPT !.errno = 65537,
                                                     !.architectures = {"x86_64"}]}

-----------------------------------------------------------------------------
(* Values wider than the low bit, which is all that x32 compares *)

WideFilters ==
  {<<A(0, "EQ", 1)>>, <<A(0, "EQ", 2)>>, <<A(0, "NE", 3)>>, <<A(0, "GE", 2)>>,
   <<A(0, "LT", 3)>>, <<Masked(0, 2, 2)>>, <<Masked(0, 3, 1)>>, <<A(0, "EQ", 3), A(1, "NE", 1)>>}

ListedOn(profiles, lists) ==
  {[profile EXCEPT !.architectures = list] : profile \in profiles, list \in lists}

WideProfiles ==
  ListedOn(OneRule("ERRNO", {"ALLOW"}, WideFilters) \cup OneRule("ALLOW", {"ERRNO"}, WideFilters)
             \cup {P("ERRNO", <<E("read", "ALLOW", <<A(0, "EQ", 1)>>),
                               E("read", "ALLOW", <<A(0, "EQ", value)>>)>>) : value \in {2, 3}}
             \cup {P("LOG", <<>>)},
           {{"x86_64", "x32"}})
    \cup {P("ERRNO", <<E("read", "ALLOW", <<A(0, "EQ", 1)>>), E("read", "LOG", <<A(0, "EQ", 3)>>)>>)}

-----------------------------------------------------------------------------
(* Two syscalls that a multiplexer carries *)

SocketNames == <<"bind", "socket", "socketcall">>
Socketcall == <<"socketcall">>
SocketCarried == [target \in {"socketcall"} |-> <<"bind", "socket">>]

SocketRules ==
  {<<>>, <<E("socket", "ALLOW", <<>>)>>, <<E("socket", "ALLOW", <<A(0, "EQ", 1)>>)>>,
   <<E("socket", "ALLOW", <<A(1, "EQ", 1)>>), E("socket", "LOG", <<A(1, "NE", 1)>>)>>,
   <<E("socket", "ALLOW", <<A(0, "EQ", 1)>>), E("socket", "LOG", <<A(0, "NE", 1)>>)>>,
   <<E("socket", "ALLOW", <<>>), E("socket", "LOG", <<A(1, "EQ", 1)>>)>>,
   <<E("socket", "TRAP", <<A(0, "EQ", 1), A(1, "EQ", 0)>>)>>,
   <<WithErrno(E("socket", "ERRNO", <<A(1, "EQ", 1)>>), 2)>>}

SocketcallRules ==
  {<<>>, <<E("socketcall", "ALLOW", <<>>)>>, <<E("socketcall", "TRAP", <<A(0, "EQ", 1)>>)>>,
   <<WithErrno(E("socketcall", "ERRNO", <<>>), 2)>>}

BindRules == {<<>>, <<E("bind", "LOG", <<A(1, "EQ", 1)>>)>>}

SocketProfiles ==
  {[P(default, socket \o call) EXCEPT !.architectures = {"x86_64", "x86"}] :
     default \in {"ERRNO", "ALLOW"}, socket \in SocketRules, call \in SocketcallRules}
    \cup {[P("ERRNO", bind \o call) EXCEPT !.architectures = {"x86_64", "x86"}] :
            bind \in BindRules, call \in SocketcallRules}
    \cup {P("ERRNO", socket) : socket \in SocketRules}

\* Three of them.
SocketTripleProfiles ==
  {[P(default, socket \o call) EXCEPT !.architectures = {"x86"}] :
     default \in {"ERRNO", "ALLOW"},
     socket \in {<<>>, <<E("socket", "ALLOW", <<A(0, "EQ", 1)>>)>>,
                 <<E("socket", "LOG", <<A(1, "EQ", 1)>>)>>},
     call \in {<<>>, <<E("socketcall", "TRAP", <<A(0, "EQ", 1)>>)>>}}
    \cup {P("ERRNO", <<E("bind", "LOG", <<A(1, "EQ", 1)>>)>>),
          [P("ERRNO", <<E("socketcall", "ALLOW", <<>>)>>) EXCEPT !.errno = 2]}

-----------------------------------------------------------------------------
(* Every other field *)

FieldNames == <<"read", "write">>

FlagLists == {LeftToRuntime, {}, {"SPEC_ALLOW"}, {"LOG"}, {"LOG", "SPEC_ALLOW"},
              {"TSYNC", "WAIT_KILLABLE_RECV"}}

FieldProfiles ==
  {[P("ERRNO", <<>>) EXCEPT !.flags = flags, !.path = path[1], !.metadata = path[2]] :
     flags \in FlagLists, path \in {<<NoPath, "m0">>, <<"a", "m1">>, <<"b", "">>}}
    \cup {[P("ERRNO", <<E("read", "NOTIFY", filter)>>) EXCEPT !.errno = errno, !.path = path] :
            filter \in {<<>>, <<A(0, "EQ", 1)>>}, errno \in {Unset, 2}, path \in {NoPath, "a"}}
    \cup {P("NOTIFY", <<>>), P("LOG", <<>>), Nil,
          P("ALLOW", <<[E("read", "LOG", <<>>) EXCEPT !.names = {}]>>),
          [P("ALLOW", <<[E("read", "NOTIFY", <<>>) EXCEPT !.names = {"read", "write"}]>>)
             EXCEPT !.path = "a"],
          P("TRACE", <<[E("read", "ALLOW", <<>>) EXCEPT !.names = {"read", "write"}]>>)}

-----------------------------------------------------------------------------
(* The profiles of every arity *)

MCRuleProfiles == [n \in 1..3 |-> IF n = 3 THEN TripleProfiles ELSE RuleProfiles]
MCLimitProfiles == [n \in 1..2 |-> BudgetProfiles \cup RespelledProfiles \cup WideProfiles]
MCSocketProfiles == [n \in 1..3 |-> IF n = 3 THEN SocketTripleProfiles ELSE SocketProfiles]
MCFieldProfiles == [n \in 0..3 |-> IF n = 0 THEN {} ELSE FieldProfiles]
=============================================================================
