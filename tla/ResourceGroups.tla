--------------------------- MODULE ResourceGroups ---------------------------
(***************************************************************************)
(* ResourceGrouper (pkg/discovery/resource_grouper.go): which resources    *)
(* share a rate limit.  Groups are kept in a Go map, which is walked in    *)
(* any order; a pattern is the set of targets (host and path) it matches.  *)
(***************************************************************************)
EXTENDS Integers, FiniteSets

CONSTANTS
  NewGroups,      \* configurations for AddResourceGroup and Update...
  MaxChanges,     \* bound: changes of the configuration
  MaxAsked        \* bound: identifiers asked for between two changes

ASSUME GroupsAssumption == \A x \in NewGroups : x.group.priority \in Int

VARIABLES
  groups,         \* rg.groupConfigs, by name, with the compiled pattern
  assigned,       \* observation: <<target, id>> since the last change
  removed,        \* observation: names given to RemoveResourceGroup
  crashed,        \* GroupResource has dereferenced a missing group
  changes         \* changes of the configuration so far

groupVars == <<groups, assigned, removed, crashed, changes>>

Default == "Default_HTTP"

(* One target for every way in which the default patterns overlap.         *)
Targets == {"github_issues", "github_search", "docker_manifest", "aws", "gcp",
            "k8s_pods", "k8s_extension", "graphql_under_api_v4", "other"}

Group(matches, share, priority) ==
  [matches |-> matches, share |-> share, priority |-> priority, valid |-> TRUE]

(* initializeDefaultConfigs and compilePatterns (limits, windows and       *)
(* descriptions, which only go with the group, left out).                  *)
DefaultGroups ==
  [n \in {"GitHub_API_Core", "GitHub_API_Search", "Docker_Hub_Registry",
          "AWS_API_Gateway", "Google_Cloud_APIs", "Kubernetes_API_Core",
          "Kubernetes_API_Extensions", "REST_API_Generic",
          "GraphQL_Endpoints", Default} |->
     CASE n = "GitHub_API_Core"           -> Group({"github_issues"}, TRUE, 10)
       [] n = "GitHub_API_Search"         -> Group({"github_search"}, TRUE, 9)
       [] n = "Docker_Hub_Registry"       -> Group({"docker_manifest"}, TRUE, 8)
       [] n = "AWS_API_Gateway"           -> Group({"aws"}, FALSE, 7)
       [] n = "Google_Cloud_APIs"         -> Group({"gcp"}, FALSE, 6)
       [] n = "Kubernetes_API_Core"       -> Group({"k8s_pods"}, TRUE, 5)
       [] n = "Kubernetes_API_Extensions" -> Group({"k8s_extension"}, TRUE, 4)
       [] n = "REST_API_Generic"          ->
            Group({"k8s_pods", "graphql_under_api_v4"}, FALSE, 3)
       [] n = "GraphQL_Endpoints"         ->
            Group({"graphql_under_api_v4"}, TRUE, 2)
       [] n = Default                     -> Group(Targets, FALSE, 1)]

GroupInit ==
  /\ groups = DefaultGroups
  /\ assigned = {}
  /\ removed = {}
  /\ crashed = FALSE
  /\ changes = 0

(* Mutated GroupID: the resource of a shared group shows.                  *)
GroupIDOfResource(name, target, share) == <<name, target>>

(* generateGroupID; hashes do not collide.                                 *)
GroupID(name, target, share) == IF share THEN <<name>> ELSE <<name, target>>

Matching(target) == {n \in DOMAIN groups : target \in groups[n].matches}

(* Mutated Best: whichever group comes first in the map.                   *)
BestIsAny(target) == Matching(target)

(* The loop of GroupResource; with equal priorities the first one that the *)
(* walk over the map meets.                                                *)
Best(target) ==
  {n \in Matching(target) :
     \A m \in Matching(target) : groups[m].priority <= groups[n].priority}

(* GroupResource, also as GetDefaultRateLimit, ShouldShareRateLimit and    *)
(* NormalizeResourceID call it.                                            *)
GroupResource(target) ==
  LET In(n) == assigned' = assigned \cup
                 {<<target, GroupID(n, target, groups[n].share)>>}
  IN
  /\ ~crashed
  /\ Cardinality(assigned) < MaxAsked
  /\ \/ (\E n \in Best(target) : In(n)) /\ UNCHANGED crashed
     \/ /\ Matching(target) = {}
        /\ Default \in DOMAIN groups
        /\ In(Default)
        /\ UNCHANGED crashed
     \/ /\ Matching(target) = {}
        /\ Default \notin DOMAIN groups
        /\ crashed' = TRUE
        /\ UNCHANGED assigned
  /\ UNCHANGED <<groups, removed, changes>>

Put(name, g) ==
  groups' = [n \in DOMAIN groups \cup {name} |-> IF n = name THEN g ELSE groups[n]]

Change ==
  /\ ~crashed
  /\ changes < MaxChanges
  /\ changes' = changes + 1
  /\ assigned' = {}
  /\ UNCHANGED crashed

(* AddResourceGroup replaces a group of the same name; an invalid pattern  *)
(* is refused.                                                             *)
AddResourceGroup(name, g) ==
  /\ Change
  /\ IF g.valid THEN Put(name, g) ELSE UNCHANGED groups
  /\ UNCHANGED removed

RemoveResourceGroup(name) ==
  /\ Change
  /\ groups' = [n \in DOMAIN groups \ {name} |-> groups[n]]
  /\ removed' = removed \cup {name}

(* UpdateResourceGroup: config.Name does not count.                        *)
UpdateResourceGroup(old, name, g) ==
  /\ Change
  /\ IF old \in DOMAIN groups /\ g.valid THEN Put(old, g) ELSE UNCHANGED groups
  /\ UNCHANGED removed

GroupNext ==
  \/ \E t \in Targets : GroupResource(t)
  \/ \E x \in NewGroups : AddResourceGroup(x.name, x.group)
  \/ \E n \in DOMAIN groups : RemoveResourceGroup(n)
  \/ \E n \in DOMAIN groups \cup {"no_such_group"}, x \in NewGroups :
       UpdateResourceGroup(n, x.name, x.group)

GroupSpec == GroupInit /\ [][GroupNext]_groupVars

-----------------------------------------------------------------------------
(* The groups that no other group with the target outranks.                *)
Claims(target) ==
  {n \in DOMAIN groups :
     /\ target \in groups[n].matches
     /\ ~\E m \in DOMAIN groups : /\ target \in groups[m].matches
                                  /\ groups[m].priority > groups[n].priority}

(* As long as the configuration stays, a target has one identifier, unless *)
(* groups of equal priority compete for it (the order of the map decides); *)
(* two targets have the same one only in a shared group, and always if it  *)
(* is the only one to claim them.  There always is one, unless the default *)
(* group was removed, after which GroupResource fails with a nil pointer.  *)
SharesOneLimit ==
  /\ crashed => Default \in removed
  /\ \A a, b \in assigned :
       IF a[1] = b[1]
       THEN a[2] = b[2] \/ Cardinality(Claims(a[1])) > 1
       ELSE LET n == a[2][1] IN
            /\ a[2] = b[2] => groups[n].share
            /\ Claims(a[1]) = {n} /\ Claims(b[1]) = {n} /\ groups[n].share
               => a[2] = b[2]
=============================================================================
