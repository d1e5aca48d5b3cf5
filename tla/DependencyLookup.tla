---------------------------- MODULE DependencyLookup ----------------------------
(***************************************************************************)
(* The DependencyManager: the configs are merged in order into one entry   *)
(* for each platform of a dependency; a lookup takes the newest file of    *)
(* the first priority group that has one, then cloud storage, and falls    *)
(* back to the platform "default"; BinaryManager asks for a versioned      *)
(* platform first.                                                         *)
(***************************************************************************)
EXTENDS Naturals, Sequences, Functions

CONSTANTS Entries,  \* what a config has for a platform that it names: [groups, cloud, named]
          Retries   \* cloud_storage_retries

VARIABLES configs,  \* the configs of a manager
          merged,   \* how many are in _lookup_dict
          lookup,   \* the entry of each platform
          refused,  \* a second config names cloud storage for the same platform
          exists,   \* the local files there are; "x" is older than "y", and "y" than "z"
          errors,   \* the attempts that end in an error of cloud storage
          broken,   \* what is then downloaded is of no use
          asked, result

vars == <<configs, merged, lookup, refused, exists, errors, broken, asked, result>>

Platforms == {"versioned", "plain", "default"}
Paths == {"x", "y", "z"}
Age == [p \in Paths |-> CASE p = "x" -> 3 [] p = "y" -> 2 [] p = "z" -> 1]
Absent == [groups |-> <<>>, cloud |-> FALSE, named |-> FALSE]
Options == Entries \union {Absent}

\* No group is empty.
Groups == Seq((SUBSET Paths) \ {{}})
LookupAssumption == Retries \in Nat /\ \A e \in Entries : e \in [groups : Groups, cloud : BOOLEAN, named : {TRUE}]

\* What a lookup gives: a local file, the download of a platform's entry, or no path.
Local(x) == <<"local", x>>
Cloud(q) == <<"cloud", q>>
None == <<"none">>
Skipped == <<"skipped">>
Error == <<"error">>
Results == {Local(x) : x \in Paths} \union {Cloud(q) : q \in Platforms} \union {None, Skipped, Error}

TypeOK ==
  /\ \A k \in DOMAIN configs : configs[k] \in [Platforms -> Options]
  /\ merged \in 0..Len(configs) /\ refused \in BOOLEAN /\ exists \subseteq Paths
  /\ \A p \in Platforms : lookup[p] \in [groups : Groups, cloud : BOOLEAN, named : BOOLEAN]
  /\ errors \in 0..Retries + 1 /\ broken \in BOOLEAN
  /\ asked \in {"nothing", "plain", "versioned", "prefetch"} /\ result \in Results

Init ==
  /\ \E a, b \in [Platforms -> Options] : configs = <<a, b>>
  /\ merged = 0 /\ lookup = [p \in Platforms |-> Absent] /\ refused = FALSE
  /\ exists = {} /\ errors = 0 /\ broken = FALSE /\ asked = "nothing" /\ result = None

-----------------------------------------------------------------------------
(* DependencyInfo.Update and LocalPathInfo.Update *)

\* A path that is already in a group is not added again, nor is a group without a new path.
Fresh(acc, group) == group \ UNION Range(acc)
WithEmpty(acc, group) == Append(acc, Fresh(acc, group))
WithGroup(acc, group) == IF Fresh(acc, group) = {} THEN acc ELSE Append(acc, Fresh(acc, group))
UpdateGroups(old, new) ==
  LET after[n \in 0..Len(new)] == IF n = 0 THEN old ELSE WithGroup(after[n - 1], new[n])
  IN  after[Len(new)]
Update(old, new) ==
  [groups |-> UpdateGroups(old.groups, new.groups), cloud |-> old.cloud \/ new.cloud, named |-> TRUE]
Clashes(old, new) == old.cloud /\ new.cloud

\* The constructor raises, and the manager with it, when two configs clash.
UpdateDependencies ==
  /\ merged < Len(configs) /\ ~refused /\ merged' = merged + 1
  /\ LET new == configs[merged + 1] IN
     /\ refused' = (\E p \in Platforms : Clashes(lookup[p], new[p]))
     /\ lookup' = [p \in Platforms |-> IF ~lookup[p].named THEN new[p] ELSE IF ~new[p].named THEN lookup[p] ELSE Update(lookup[p], new[p])]
  /\ UNCHANGED <<configs, exists, errors, broken, asked, result>>

-----------------------------------------------------------------------------
(* Lookups *)

Newest(S) == CHOOSE p \in S : \A q \in S : Age[p] <= Age[q]
GetLocalPath(entry) ==
  LET here == {n \in DOMAIN entry.groups : entry.groups[n] \intersect exists' # {}}
      first == CHOOSE n \in here : \A m \in here : n <= m
  IN  IF here = {} THEN "none" ELSE Newest(entry.groups[first] \intersect exists')
GetDependencyInfo(p) == IF lookup[p].named THEN p ELSE "default"
\* reply: what cloud storage answers, if it is asked.
Fetch(q, reply) ==
  IF GetLocalPath(lookup[q]) # "none" THEN Local(GetLocalPath(lookup[q])) ELSE IF lookup[q].cloud THEN reply ELSE None
FetchPath(p) == Fetch(GetDependencyInfo(p), IF errors' = 0 THEN Cloud(GetDependencyInfo(p)) ELSE Error)
\* Only a path that cannot be found lets BinaryManager ask for the unversioned platform.
OnAnyError == IF FetchPath("versioned") \notin {None, Error} THEN FetchPath("versioned") ELSE FetchPath("plain")
Versioned == IF FetchPath("versioned") # None THEN FetchPath("versioned") ELSE FetchPath("plain")
\* PrefetchPaths: an error of cloud storage is repeated, any other one is not.
Prefetch ==
  LET q == GetDependencyInfo("plain") IN
  IF lookup[q].named THEN Fetch(q, IF errors' > Retries THEN None ELSE IF broken' THEN Error ELSE Cloud(q)) ELSE Skipped

Ask(kind, r) == asked' = kind /\ result' = r
Lookups ==
  /\ merged = Len(configs) /\ ~refused /\ asked = "nothing" /\ exists' \in SUBSET Paths
  /\ \/ errors' \in 0..1 /\ broken' = FALSE /\ (Ask("plain", FetchPath("plain")) \/ Ask("versioned", Versioned))
     \/ errors' \in 0..Retries + 1 /\ broken' \in BOOLEAN /\ Ask("prefetch", Prefetch)
  /\ UNCHANGED <<configs, merged, lookup, refused>>

Next == UpdateDependencies \/ Lookups

Spec == Init /\ [][Next]_vars

-----------------------------------------------------------------------------
(* Properties *)

\* What the configs say of a platform, or of "default" when none names it.
Named(p) == \E k \in DOMAIN configs : configs[k][p].named
Chosen(p) == IF Named(p) THEN p ELSE "default"
\* The first config, and the first group of it, that lists the path.
Rank(p, x) ==
  UNION {{<<k, n>> : n \in {m \in DOMAIN configs[k][p].groups : x \in configs[k][p].groups[m]}} : k \in DOMAIN configs}
Before(r, s) == r[1] < s[1] \/ (r[1] = s[1] /\ r[2] < s[2])
First(R) == CHOOSE r \in R : \A s \in R \ {r} : Before(r, s)
Better(p, x, y) ==
  \/ Before(First(Rank(p, x)), First(Rank(p, y)))
  \/ First(Rank(p, x)) = First(Rank(p, y)) /\ Age[x] < Age[y]
Listed(p) == {x \in exists : Rank(p, x) # {}}
Best(p) == CHOOSE x \in Listed(p) : \A y \in Listed(p) \ {x} : Better(p, x, y)
InCloud(p) == \E k \in DOMAIN configs : configs[k][p].cloud

\* A lookup gives the best file the configs list, of the earliest config and group the newest; cloud storage is asked
\* only when no listed file exists, and "default" only when no config names the platform, if only without any place.
\* An error of cloud storage is the answer: the unversioned platform is asked only when the versioned one lists no
\* file there is and names no cloud storage.  A prefetch gives up only after Retries + 1 errors of cloud storage.
Answer(p, reply) ==
  IF Listed(Chosen(p)) # {} THEN Local(Best(Chosen(p))) ELSE IF InCloud(Chosen(p)) THEN reply ELSE None
Plainly(p) == Answer(p, IF errors = 0 THEN Cloud(Chosen(p)) ELSE Error)
Prefetched == IF errors > Retries THEN None ELSE IF broken THEN Error ELSE Cloud(Chosen("plain"))
LookupIsBest ==
  /\ refused <=> \E p \in Platforms : merged = 2 /\ configs[1][p].cloud /\ configs[2][p].cloud
  /\ asked = "plain" => result = Plainly("plain")
  /\ asked = "versioned" => result = IF Plainly("versioned") = None THEN Plainly("plain") ELSE Plainly("versioned")
  /\ asked = "prefetch" => result = IF Named("plain") \/ Named("default") THEN Answer("plain", Prefetched) ELSE Skipped
=============================================================================
