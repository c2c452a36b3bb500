------------------------------- MODULE Policy -------------------------------
(***************************************************************************)
(* pkg/policy: which invocation arguments a delegation policy admits, and  *)
(* when a child policy attenuates its parent's.                            *)
(*                                                                         *)
(* A policy is a record of cost and calls (a limit or Unset), pii and      *)
(* write ("true", "false" or Unset) and the lists tools, resources and     *)
(* classes, as sets: an empty list and one with Star are unrestricted.     *)
(* Arguments are a record of cost, pii, write, tool, resource and class;   *)
(* Missing stands for an argument that is absent or of the wrong type.     *)
(* A resource is its path, split at "/" (the scheme is fixed); a pattern   *)
(* is a path with wild for a trailing "/*".                                *)
(***************************************************************************)
EXTENDS Integers, Sequences, SequencesExt

CONSTANTS Unset,    \* a field the policy leaves out
          Missing,  \* an argument that is absent or of the wrong type
          Star      \* the wildcard "*" in a list

ASSUME PolicyConstants ==
  /\ Unset \notin Int
  /\ Missing \notin Int

\* Is the list a restriction at all?
Restricts(list) == list # {} /\ Star \notin list

---------------------------------------------------------------------------
(* Resources *)

\* url.PathUnescape of one segment, on the segments that matter here.  The
\* result is split at the slashes that were escaped.
Unescape(seg) ==
  CASE seg \in {"%2e", "%2E"}               -> <<".">>
    [] seg \in {"%2e%2e", "%2E%2E", ".%2e"} -> <<"..">>
    [] seg = "%252e%252e"                   -> <<"%2e%2e">>
    [] seg \in {"docs%2fa", "docs%2Fa"}     -> <<"docs", "a">>
    [] OTHER                                -> <<seg>>

\* normalizeResourceURI unescapes each segment once, drops "." and empty
\* segments and resolves "..".  An escaped slash does not divide a segment, but
\* it is a slash of the joined result.
Normalize(path) ==
  LET parts == FoldLeft(LAMBDA done, seg :
                 CASE Unescape(seg) = <<"..">>             -> IF done = <<>> THEN done ELSE Front(done)
                   [] Unescape(seg) \in {<<".">>, <<"">>} -> done
                   [] OTHER                                -> Append(done, Unescape(seg)),
                 <<>>, path)
  IN  FoldLeft(LAMBDA joined, part : joined \o part, <<>>, parts)

\* One pattern covers a resource: literally, or as a prefix that ends at a
\* segment boundary.  A wild pattern with nothing before the "/*" covers all.
PatternCovers(p, uri) ==
  LET norm   == Normalize(uri)
      prefix == Normalize(p.path)
  IN  IF p.wild
      THEN prefix = <<>> \/ IsStrictPrefix(prefix, norm)
      ELSE p.path = uri \/ p.path = norm

ResourceCovered(uri, patterns) ==
  \E p \in patterns \ {Star} : PatternCovers(p, uri)

---------------------------------------------------------------------------
(* Evaluate: one conjunct per field; max_calls is not evaluated. *)

CostAllowed(limit, cost) ==
  limit # Unset => cost # Missing /\ cost >= 0 /\ cost <= limit

\* A flag that is false demands an explicit false.
FlagAllowed(flag, arg) == flag = "false" => arg = "false"

ToolAllowed(tools, tool) == Restricts(tools) => tool # Missing /\ tool \in tools

ResourceAllowed(resources, uri) ==
  Restricts(resources) => uri # Missing /\ ResourceCovered(uri, resources)

ClassAllowed(classes, class) == Restricts(classes) => class # Missing /\ class \in classes

Evaluate(pol, args) ==
  /\ CostAllowed(pol.cost, args.cost)
  /\ FlagAllowed(pol.pii, args.pii)
  /\ FlagAllowed(pol.write, args.write)
  /\ ToolAllowed(pol.tools, args.tool)
  /\ ResourceAllowed(pol.resources, args.resource)
  /\ ClassAllowed(pol.classes, args.class)

---------------------------------------------------------------------------
(* CheckAttenuation *)

\* A limit of the parent must be inherited or tightened, not omitted.
LimitAttenuates(parent, child) ==
  parent # Unset => child # Unset /\ child <= parent

\* A denied flag must not be granted; it may be omitted.
FlagAttenuates(parent, child) == ~(parent = "false" /\ child = "true")

\* A restricted list must stay restricted, to entries of the parent's list.
ListAttenuates(parent, child) ==
  Restricts(parent) => child # {} /\ Star \notin child /\ child \subseteq parent

\* Mutant: max_calls is not compared.
CheckAttenuationNoCalls(parent, child) ==
  /\ LimitAttenuates(parent.cost, child.cost)
  /\ FlagAttenuates(parent.pii, child.pii)
  /\ FlagAttenuates(parent.write, child.write)
  /\ ListAttenuates(parent.tools, child.tools)
  /\ ListAttenuates(parent.resources, child.resources)
  /\ ListAttenuates(parent.classes, child.classes)

CheckAttenuation(parent, child) ==
  /\ LimitAttenuates(parent.cost, child.cost)
  /\ FlagAttenuates(parent.pii, child.pii)
  /\ FlagAttenuates(parent.write, child.write)
  /\ LimitAttenuates(parent.calls, child.calls)
  /\ ListAttenuates(parent.tools, child.tools)
  /\ ListAttenuates(parent.resources, child.resources)
  /\ ListAttenuates(parent.classes, child.classes)

============================================================================
