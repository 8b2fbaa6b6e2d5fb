----------------------------- MODULE MCSession ------------------------------
(***************************************************************************)
(* A session with three command files, one of which runs another, and two  *)
(* symbol files.  All names share one hash chain.                          *)
(***************************************************************************)
EXTENDS Session

Var(name, value) == [name |-> name, value |-> value]

\* One file runs another; the last line of "two" has no newline.
MCScript ==
  ".dbinit" :> <<<<"set", Var("v", 1)>>, <<"c", None>>, <<"so", "missing">>, <<"sym", "old">>>>
  @@ "one" :> <<<<"b", None>>, <<"c", None>>, <<"so", "two">>, <<"c", None>>>>
  @@ "two" :> <<<<"#", None>>, <<>>, <<"b", None>>, <<"q", None>>>>
MCCut == {"two"}

MCMaps ==
  "old" :> <<Var("main", 1), Var("work", 2)>>
  @@ "new" :> <<Var("work", 1), Page, Var("main", 3)>>

MCTyped ==
  {<<"so", "one">>, <<"sym", "new">>, <<"set", Var("v", 2)>>, <<"set", Var("thread_current", 1)>>,
   <<"c", None>>, <<"?", None>>, <<"q", None>>, <<>>}

MCNameHash == [n \in {"main", "work", "v", "thread_current"} |-> 0]
MCVariables == {"v", "thread_current"}
=============================================================================
