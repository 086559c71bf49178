------------------------------ MODULE MCPolicy -------------------------------
(* Small values for PolicyLoad. *)
EXTENDS PolicyLoad

MCMapped == <<0, 1>>
MCLowerOf == [Ex |-> "ex", EX |-> "ex"]
MCRoot == <<"repo">>

V4(bits) == [width |-> 2, bits |-> bits]
V6(bits) == [width |-> 4, bits |-> bits]
NotANet == [width |-> 0, bits |-> <<>>]

Wild == <<"*", ".", "Ex", ".", "com">>
Exact == <<"ex", ".", "com">>
TooBroad == <<"*", ".">>

Local(reads, real) == [kind |-> "local", reads |-> reads, real |-> real]

MCRefs ==
  { NoRef,
    [kind |-> "absolute", reads |-> <<>>, real |-> <<>>],
    [kind |-> "remote", reads |-> <<>>, real |-> <<>>],
    Local(<<"repo", "base">>, <<"repo", "base">>),
    Local(<<"repo", "sub", "base">>, <<"repo", "sub", "base">>),
    Local(<<"repo", "sub", "link">>, <<"repo", "base">>),
    Local(<<"repo", "link">>, <<"etc", "file">>) }

Content(mode, raw, endpoints, ips) ==
  [mode |-> mode, blockRawIP |-> raw, endpoints |-> endpoints, ips |-> ips]

(* Lists with repetitions, with both forms of one network, and scalars that
   are set, not set, or wrong. *)
MCContents ==
  { Content("block", Unset, <<Exact>>, <<V4(<<1>>)>>),
    Content(Unset, FALSE, <<Wild, Exact>>, <<V6(<<0, 1, 1>>), V6(<<1>>)>>),
    Content("audit", TRUE, <<Wild, <<>>, Wild>>, <<>>),
    Content(Unset, Unset, <<>>, <<V6(<<0, 1>>)>>),
    Content("enforce", Unset, <<TooBroad>>, <<V4(<<>>)>>),
    Content(Unset, Unset, <<>>, <<V6(<<0>>)>>),
    Content("block", Unset, <<Exact>>, <<V4(<<0, 1>>), NotANet>>) }

Document(c, ref, yaml, known) ==
  [mode |-> c.mode, blockRawIP |-> c.blockRawIP, endpoints |-> c.endpoints, ips |-> c.ips,
   extends |-> ref, isYaml |-> yaml, knownKeys |-> known]

MCDocuments ==
  {Document(c, ref, TRUE, TRUE) : c \in MCContents, ref \in MCRefs}
    \cup {Document(Content(Unset, Unset, <<>>, <<>>), NoRef, y, FALSE) : y \in BOOLEAN}

MCNames ==
  { <<"ex", ".", "com">>, <<"EX", ".", "com">>, <<"Ex", ".", "com", ".">>, <<"a", ".", "ex", ".", "com">>,
    <<"a", ".", "b", ".", "Ex", ".", "com">>, <<"not", "ex", ".", "com">>, <<"ex", ".", "com", ".", "a">> }
==============================================================================
