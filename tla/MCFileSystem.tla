---------------------------- MODULE MCFileSystem ----------------------------
(***************************************************************************)
(* Workloads for FileSystem.                                               *)
(***************************************************************************)
EXTENDS FileSystem

CONSTANTS p1, p2

OnPath(op, path) == [op |-> op, path |-> path, to |-> <<>>, write |-> FALSE]
OnFile(op) == OnPath(op, <<>>)
Link(old, new) == [OnPath("link", old) EXCEPT !.to = new]
OpenTrunc(path) == [OnPath("open", path) EXCEPT !.write = TRUE]
Swapon(name) == OnPath("swapon", <<name>>)

Pair(a, b) == [p \in Proc |-> IF p = p1 THEN a ELSE b]
MCSwapName == [p \in Proc |-> IF p = p1 THEN "s1" ELSE "s2"]

\* One process writes, links, makes and leaves directories, truncates through two
\* descriptors, swaps, ...
FirstDoes ==
  { <<OnPath("create", <<"a">>), OnFile("write"), Link(<<"a">>, <<"b">>), OnFile("close")>>,
    <<OnPath("mkdir", <<"a">>), OnPath("chdir", <<"a">>), OnPath("create", <<"b">>),
      OnPath("chdir", <<"..">>)>>,
    <<OnPath("create", <<"a">>), OnFile("dup"), OnFile("close"), OnFile("write"), OnFile("close")>>,
    <<Swapon("s1"), OnPath("create", <<"a", "b">>), Swapon("s1"), OnFile("exit")>>,
    <<OnPath("mkdir", <<"a">>), Link(<<"a", "b">>, <<"b">>), OnPath("unlink", <<"a", "b">>)>> }

\* ... while the other does the like with the same names.
SecondDoes ==
  { <<OnPath("unlink", <<"a">>), OnPath("mkdir", <<"b">>), OnPath("unlink", <<"b">>)>>,
    <<OnPath("mkdir", <<"a">>), OnPath("open", <<"a", "..">>), OnPath("unlink", <<"a">>)>>,
    <<OpenTrunc(<<"a">>), OnFile("write"), OnPath("unlink", <<"a">>), OnFile("close")>>,
    <<OnPath("create", <<"a">>), OnPath("create", <<"a", "b">>), OnFile("close")>>,
    <<OnPath("create", <<"b">>), Link(<<"b">>, <<"a", "b">>), OnFile("close")>> }

MCPlans == {Pair(a, b) : a \in FirstDoes, b \in SecondDoes}

\* The second process makes and removes a directory while the first frees a file.
MCReusePlans ==
  { Pair(<<OnPath("create", <<"a">>), OnPath("unlink", <<"a">>), OnFile("close")>>,
         <<OnPath("mkdir", <<"b">>), OnPath("unlink", <<"b">>)>>) }

\* Both meet what the theorems about names ask of the calls.
ASSUME PlansAreFlat == Hygiene /\ FlatPlans
=============================================================================
