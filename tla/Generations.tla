------------------------------ MODULE Generations ------------------------------
(***************************************************************************)
(* The files of one collection in chiezo-trigger: how a bake replaces what *)
(* is served (src/ingest/main.py, src/ingest/sources/collect.py), and how  *)
(* rollback, delete and rename work on the same files (ingest/server.py).  *)
(*                                                                         *)
(* A generation <name>-<date>.db and the staged material <name>-<date>.    *)
(* ndjson it is built from are their date: what is built from one material *)
(* is one content.  The link <name>.db is the date it points at.  A step   *)
(* is one change of the directory, or one reading of it.                   *)
(***************************************************************************)
EXTENDS Naturals, FiniteSets, FiniteSetsExt

CONSTANTS
    Names,         \* the name of the collection and those it is renamed to
    FirstName,     \* the name it has first
    Requests,      \* request threads of rollback, delete and rename
    Tools,         \* which of "rollback", "delete", "rename" they do
    LAST           \* bound: the last date

GenerationsAssumption ==
    /\ FirstName \in Names
    /\ LAST \in Nat \ {0}
    /\ Tools \subseteq {"rollback", "delete", "rename"}

VARIABLES
    gens,          \* gens[n]: the generations of n
    link,          \* link[n]: what n.db points at, 0 if there is no link
    staged,        \* staged[n]: material of n in dumps/ that may be baked
    bake,          \* bake[n]: the run of n (Trigger: there is at most one)
    request,       \* request[r]: what request r is doing
    today,         \* the last date a material was given
    home,          \* the name the app's definition of the collection has
    kept,          \* history: the collection was served and nobody asked to delete it
    earlier        \* history: what was served before the last bake, 0 if none or deleted

vars == <<gens, link, staged, bake, request, today, home, kept, earlier>>

files == <<gens, link, staged>>

Dates == 1..LAST

\* building: its material is staged; switching: built, validated; linking: its
\* file has its name; pruning: served; closing: only its material is left.
NoBake == [at |-> "none", date |-> 0, before |-> 0, old |-> {}]

\* live, gens, staged: what was listed and is still to be done; made, moved: what
\* a rename has made under the new name.
NoRequest == [job |-> "none", at |-> "none", name |-> FirstName, to |-> FirstName,
              live |-> 0, gens |-> {}, staged |-> {}, made |-> {}, moved |-> {}]

Running(n) == bake[n].at # "none"

Renaming(n) ==
    \E r \in Requests : request[r].job = "rename" /\ n \in {request[r].name, request[r].to}

Resolves(n) == link[n] \in gens[n]

-----------------------------------------------------------------------------

Init ==
    /\ gens = [n \in Names |-> {}]
    /\ link = [n \in Names |-> 0]
    /\ staged = [n \in Names |-> {}]
    /\ bake = [n \in Names |-> NoBake]
    /\ request = [r \in Requests |-> NoRequest]
    /\ today = 0
    /\ home = FirstName
    /\ kept = FALSE
    /\ earlier = 0

-----------------------------------------------------------------------------
\* A bake (ingest/main.py, run).

Baking(n, at) == bake' = [bake EXCEPT ![n].at = at]

\* start_run; the requests check that no run goes on, the run looks at renames.
Start(n) ==
    /\ n = home
    /\ ~Running(n)
    /\ ~Renaming(n)
    /\ Baking(n, "fetching")
    /\ UNCHANGED <<files, request, today, home, kept, earlier>>

\* Mutant: new material is asked for although some is left.
FetchAnew(n) ==
    /\ bake[n].at = "fetching"
    /\ today < LAST
    /\ today' = today + 1
    /\ staged' = [staged EXCEPT ![n] = {today'}]
    /\ bake' = [bake EXCEPT ![n].at = "building", ![n].date = today']
    /\ UNCHANGED <<gens, link, request, home, kept, earlier>>

\* Material that an earlier run left is baked first, the newest of it; only
\* else the collection is asked for new material, dated by the second.
Fetch(n) ==
    /\ bake[n].at = "fetching"
    /\ IF staged[n] # {}
       THEN /\ bake' = [bake EXCEPT ![n].at = "building", ![n].date = Max(staged[n])]
            /\ UNCHANGED <<staged, today, home, earlier>>
       ELSE /\ today < LAST
            /\ today' = today + 1
            /\ staged' = [staged EXCEPT ![n] = {today'}]
            /\ bake' = [bake EXCEPT ![n].at = "building", ![n].date = today']
    /\ UNCHANGED <<gens, link, request, home, kept, earlier>>

\* No material comes, or a stop is seen while it is read.
FetchFails(n) ==
    /\ bake[n].at = "fetching"
    /\ bake' = [bake EXCEPT ![n] = NoBake]
    /\ UNCHANGED <<files, request, today, home, kept, earlier>>

\* Bound: a build takes longer than what is left of a request that passed its
\* check before the run was started.
BuildsLongerThanRequests(n) ==
    \A r \in Requests : request[r].job \in {"rollback", "delete"} => request[r].name # n

\* build_db and validate_db: nothing but the .building file is touched.
Build(n) ==
    /\ bake[n].at = "building"
    /\ BuildsLongerThanRequests(n)
    /\ Baking(n, "switching")
    /\ UNCHANGED <<files, request, today, home, kept, earlier>>

\* A stop: the material stays, the next run goes on from it.
StopBuild(n) ==
    /\ bake[n].at = "building"
    /\ bake' = [bake EXCEPT ![n] = NoBake]
    /\ UNCHANGED <<files, request, today, home, kept, earlier>>

\* on_broken: what cannot be built is set aside under another name.
BreakBuild(n) ==
    /\ bake[n].at = "building"
    /\ staged' = [staged EXCEPT ![n] = @ \ {bake[n].date}]
    /\ bake' = [bake EXCEPT ![n] = NoBake]
    /\ UNCHANGED <<gens, link, request, today, home, kept, earlier>>

\* switch_db: the file gets its name; what the link points at is looked up.
Place(n) ==
    /\ bake[n].at = "switching"
    /\ gens' = [gens EXCEPT ![n] = @ \cup {bake[n].date}]
    /\ bake' = [bake EXCEPT ![n].at = "linking", ![n].before = link[n]]
    /\ UNCHANGED <<link, staged, request, today, home, kept, earlier>>

\* Mutant: the newest other generation is kept, served or not.
KeepNewest(n, date, before) ==
    {date} \cup (IF gens[n] \ {date} # {} THEN {Max(gens[n] \ {date})} ELSE {})

\* What survives: the new one and the one that was served, or else the newest.
Keep(n, date, before) ==
    {date} \cup (IF before \in gens[n] THEN {before}
                 ELSE IF gens[n] \ {date} # {} THEN {Max(gens[n] \ {date})}
                 ELSE {})

\* The link moves in one rename; what to remove is chosen after.
Link(n) ==
    /\ bake[n].at = "linking"
    /\ link' = [link EXCEPT ![n] = bake[n].date]
    /\ bake' = [bake EXCEPT ![n].at = "pruning",
                            ![n].old = gens[n] \ Keep(n, bake[n].date, bake[n].before)]
    /\ kept' = TRUE
    /\ earlier' = IF kept /\ link[n] # bake[n].date THEN link[n] ELSE 0
    /\ UNCHANGED <<gens, staged, request, today, home>>

Prune(n) ==
    /\ bake[n].at = "pruning"
    /\ bake[n].old # {}
    /\ \E d \in bake[n].old :
          /\ gens' = [gens EXCEPT ![n] = @ \ {d}]
          /\ bake' = [bake EXCEPT ![n].old = @ \ {d}]
    /\ UNCHANGED <<link, staged, request, today, home, kept, earlier>>

\* on_success: the material is baked and goes.
Close(n) ==
    /\ bake[n].at = "pruning"
    /\ bake[n].old = {}
    /\ staged' = [staged EXCEPT ![n] = @ \ {bake[n].date}]
    /\ bake' = [bake EXCEPT ![n] = NoBake]
    /\ UNCHANGED <<gens, link, request, today, home, kept, earlier>>

-----------------------------------------------------------------------------
\* Requests.

Accept(r, job, n, m) ==
    request' = [request EXCEPT ![r] = [NoRequest EXCEPT !.job = job, !.at = "checked",
                                                        !.name = n, !.to = m]]

Step(r, at) == request' = [request EXCEPT ![r].at = at]

Answer(r) == request' = [request EXCEPT ![r] = NoRequest]

\* rollback_source: the newest generation that is not served.
RollBack(r, n) ==
    /\ "rollback" \in Tools
    /\ request[r].job = "none"
    /\ ~Running(n)
    /\ Accept(r, "rollback", n, n)
    /\ UNCHANGED <<files, bake, today, home, kept, earlier>>

FindEarlier(r) ==
    /\ request[r].job = "rollback" /\ request[r].at = "checked"
    /\ LET n == request[r].name
           others == gens[n] \ {link[n]}
       IN IF link[n] = 0 \/ others = {}
          THEN Answer(r)
          ELSE request' = [request EXCEPT ![r].at = "found", ![r].live = Max(others)]
    /\ UNCHANGED <<files, bake, today, home, kept, earlier>>

PointBack(r) ==
    /\ request[r].job = "rollback" /\ request[r].at = "found"
    /\ link' = [link EXCEPT ![request[r].name] = request[r].live]
    /\ Answer(r)
    /\ UNCHANGED <<gens, staged, bake, today, home, kept, earlier>>

\* delete_source: link, generations and material, in the order of the directory.
Delete(r, n) ==
    /\ "delete" \in Tools
    /\ request[r].job = "none"
    /\ ~Running(n)
    /\ Resolves(n)
    /\ Accept(r, "delete", n, n)
    /\ kept' = FALSE
    /\ earlier' = 0
    /\ UNCHANGED <<files, bake, today, home>>

ListToDelete(r) ==
    /\ request[r].job = "delete" /\ request[r].at = "checked"
    /\ LET n == request[r].name
       IN request' = [request EXCEPT ![r].at = "unlinking", ![r].live = link[n],
                                     ![r].gens = gens[n], ![r].staged = staged[n]]
    /\ UNCHANGED <<files, bake, today, home, kept, earlier>>

\* One unlink; a file that is gone is passed over.
UnlinkLink(r) ==
    /\ request[r].job = "delete" /\ request[r].at = "unlinking"
    /\ request[r].live # 0
    /\ link' = [link EXCEPT ![request[r].name] = 0]
    /\ request' = [request EXCEPT ![r].live = 0]
    /\ UNCHANGED <<gens, staged, bake, today, home, kept, earlier>>

UnlinkGeneration(r) ==
    /\ request[r].job = "delete" /\ request[r].at = "unlinking"
    /\ \E d \in request[r].gens :
          /\ gens' = [gens EXCEPT ![request[r].name] = @ \ {d}]
          /\ request' = [request EXCEPT ![r].gens = @ \ {d}]
    /\ UNCHANGED <<link, staged, bake, today, home, kept, earlier>>

UnlinkMaterial(r) ==
    /\ request[r].job = "delete" /\ request[r].at = "unlinking"
    /\ request[r].live = 0 /\ request[r].gens = {}
    /\ \/ \E d \in request[r].staged :
             /\ staged' = [staged EXCEPT ![request[r].name] = @ \ {d}]
             /\ request' = [request EXCEPT ![r].staged = @ \ {d}]
       \/ /\ request[r].staged = {}
          /\ Answer(r)
          /\ UNCHANGED staged
    /\ UNCHANGED <<gens, link, bake, today, home, kept, earlier>>

-----------------------------------------------------------------------------
\* rename_source: everything is made under the new name, then the old is removed.

\* Mutant: a run under one of the names is not looked for.
RenameUnasked(r, n, m) ==
    /\ "rename" \in Tools
    /\ request[r].job = "none"
    /\ n = home /\ m # n
    /\ \A x \in {n, m} : ~Renaming(x)
    /\ Accept(r, "rename", n, m)
    /\ UNCHANGED <<files, bake, today, home, kept, earlier>>

Rename(r, n, m) ==
    /\ "rename" \in Tools
    /\ request[r].job = "none"
    /\ n = home /\ m # n
    /\ \A x \in {n, m} : ~Running(x) /\ ~Renaming(x)
    /\ Accept(r, "rename", n, m)
    /\ UNCHANGED <<files, bake, today, home, kept, earlier>>

HasFiles(n) == link[n] # 0 \/ gens[n] # {} \/ staged[n] # {}

\* Mutant: files under the new name are no hindrance.
MayRenameOver(n, m) == HasFiles(n) /\ (link[n] # 0 => Resolves(n))

\* A link that points nowhere has no kind; a name that has files is not taken.
MayRename(n, m) == HasFiles(n) /\ (link[n] # 0 => Resolves(n)) /\ ~HasFiles(m)

\* Nothing to move is a success; the app's records follow every success.
ListToRename(r) ==
    /\ request[r].job = "rename" /\ request[r].at = "checked"
    /\ LET n == request[r].name
           m == request[r].to
       IN IF MayRename(n, m)
          THEN /\ request' = [request EXCEPT ![r].at = "copying", ![r].live = link[n],
                                             ![r].gens = gens[n], ![r].staged = staged[n]]
               /\ UNCHANGED home
          ELSE /\ Answer(r)
               /\ home' = IF HasFiles(n) THEN home ELSE m
    /\ UNCHANGED <<files, bake, today, kept, earlier>>

\* A generation gets its name under `to` when it is copied and its meta changed.
Copy(r) ==
    /\ request[r].job = "rename" /\ request[r].at = "copying"
    /\ request[r].gens \ request[r].made # {}
    /\ LET d == Min(request[r].gens \ request[r].made)
       IN /\ d \in gens[request[r].name]
          /\ gens' = [gens EXCEPT ![request[r].to] = @ \cup {d}]
          /\ request' = [request EXCEPT ![r].made = @ \cup {d}]
    /\ UNCHANGED <<link, staged, bake, today, home, kept, earlier>>

PointNewLink(r) ==
    /\ request[r].job = "rename" /\ request[r].at = "copying"
    /\ request[r].gens = request[r].made
    /\ link' = IF request[r].live = 0 THEN link
               ELSE [link EXCEPT ![request[r].to] = request[r].live]
    /\ Step(r, "moving")
    /\ UNCHANGED <<gens, staged, bake, today, home, kept, earlier>>

MoveMaterial(r) ==
    /\ request[r].job = "rename" /\ request[r].at = "moving"
    /\ \E d \in request[r].staged \cap staged[request[r].name] :
          /\ staged' = [staged EXCEPT ![request[r].name] = @ \ {d}, ![request[r].to] = @ \cup {d}]
          /\ request' = [request EXCEPT ![r].staged = @ \ {d}, ![r].moved = @ \cup {d}]
    /\ UNCHANGED <<gens, link, bake, today, home, kept, earlier>>

\* Mutant: the generations go before the link.
RemoveOldFilesFirst(r) ==
    /\ request[r].job = "rename" /\ request[r].at = "moving"
    /\ request[r].staged = {}
    /\ gens' = [gens EXCEPT ![request[r].name] = @ \ request[r].gens]
    /\ Step(r, "removing")
    /\ UNCHANGED <<link, staged, bake, today, home, kept, earlier>>

\* Everything stands under the new name: the old link goes first.
RemoveOldLink(r) ==
    /\ request[r].job = "rename" /\ request[r].at = "moving"
    /\ request[r].staged = {}
    /\ link' = [link EXCEPT ![request[r].name] = 0]
    /\ Step(r, "removing")
    /\ UNCHANGED <<gens, staged, bake, today, home, kept, earlier>>

RemoveOld(r) ==
    /\ request[r].job = "rename" /\ request[r].at = "removing"
    /\ IF request[r].gens # {}
       THEN LET d == Min(request[r].gens)
            IN /\ gens' = [gens EXCEPT ![request[r].name] = @ \ {d}]
               /\ request' = [request EXCEPT ![r].gens = @ \ {d}]
               /\ UNCHANGED home
       ELSE /\ Answer(r)
            /\ home' = request[r].to
            /\ UNCHANGED gens
    /\ UNCHANGED <<link, staged, bake, today, kept, earlier>>

\* A copy, a link or a move that fails: what was made goes, then material returns.
RenameFails(r) ==
    /\ request[r].job = "rename" /\ request[r].at \in {"copying", "moving"}
    /\ Step(r, IF request[r].at = "moving" /\ request[r].live # 0 THEN "undoing link" ELSE "undoing")
    /\ UNCHANGED <<files, bake, today, home, kept, earlier>>

Undo(r) ==
    /\ request[r].job = "rename" /\ request[r].at \in {"undoing", "undoing link"}
    /\ LET n == request[r].name
           m == request[r].to
       IN \/ /\ request[r].made # {}
             /\ gens' = [gens EXCEPT ![m] = @ \ {Min(request[r].made)}]
             /\ request' = [request EXCEPT ![r].made = @ \ {Min(request[r].made)}]
             /\ UNCHANGED <<link, staged>>
          \/ /\ request[r].made = {} /\ request[r].at = "undoing link"
             /\ link' = [link EXCEPT ![m] = 0]
             /\ Step(r, "undoing")
             /\ UNCHANGED <<gens, staged>>
          \/ /\ request[r].made = {} /\ request[r].at = "undoing"
             /\ \E d \in request[r].moved :
                   /\ staged' = [staged EXCEPT ![m] = @ \ {d}, ![n] = @ \cup {d}]
                   /\ request' = [request EXCEPT ![r].moved = @ \ {d}]
             /\ UNCHANGED <<gens, link>>
          \/ /\ request[r].made = {} /\ request[r].at = "undoing" /\ request[r].moved = {}
             /\ Answer(r)
             /\ UNCHANGED files
    /\ UNCHANGED <<bake, today, home, kept, earlier>>

-----------------------------------------------------------------------------
\* A restart of the trigger ends everything it did; the files stay as they are.
Restart ==
    /\ \E n \in Names : Running(n) \/ \E r \in Requests : request[r] # NoRequest
    /\ bake' = [n \in Names |-> NoBake]
    /\ request' = [r \in Requests |-> NoRequest]
    /\ UNCHANGED <<files, today, home, kept, earlier>>

BakeStep(n) ==
    \/ Start(n) \/ Fetch(n) \/ FetchFails(n) \/ Build(n) \/ StopBuild(n) \/ BreakBuild(n)
    \/ Place(n) \/ Link(n) \/ Prune(n) \/ Close(n)

RequestStep(r) ==
    \/ \E n \in Names : RollBack(r, n) \/ Delete(r, n) \/ \E m \in Names : Rename(r, n, m)
    \/ FindEarlier(r) \/ PointBack(r)
    \/ ListToDelete(r) \/ UnlinkLink(r) \/ UnlinkGeneration(r) \/ UnlinkMaterial(r)
    \/ ListToRename(r) \/ Copy(r) \/ PointNewLink(r) \/ MoveMaterial(r) \/ RemoveOldLink(r)
    \/ RemoveOld(r) \/ RenameFails(r) \/ Undo(r)

Next ==
    \/ \E n \in Names : BakeStep(n)
    \/ \E r \in Requests : RequestStep(r)
    \/ Restart

Spec == Init /\ [][Next]_vars

-----------------------------------------------------------------------------

\* Types; what is served or staged was dated by a fetch, and only the collection's
\* present name is baked (start_run and rename_source refuse each other's names).
TypeOK ==
    /\ gens \in [Names -> SUBSET (1..today)]
    /\ link \in [Names -> 0..today]
    /\ staged \in [Names -> SUBSET (1..today)]
    /\ today \in 0..LAST /\ earlier \in 0..today /\ home \in Names /\ kept \in BOOLEAN
    /\ \A n \in Names : bake[n] # NoBake => n = home
    /\ \A n \in Names : bake[n].at \in {"building", "switching", "linking", "pruning"}
                            => bake[n].date \in 1..today

\* The link the app opens never points at nothing: it moves in one rename, what is
\* served is not pruned, and a rename takes the old link away before the files
\* (switch_db, _rename_source_files).
LinkResolves == kept /\ link[home] # 0 => Resolves(home)

\* Once served, the collection is served under one of its names at every instant,
\* whatever fails and wherever the trigger is restarted, until somebody deletes it.
NeverUnserved == kept => \E n \in Names : Resolves(n)

\* A bake of new material leaves what was served before it to go back to, through
\* rollbacks and renames (switch_db keeps one old generation; a rename copies all).
EarlierKept == earlier # 0 => \E n \in Names : Resolves(n) /\ earlier \in gens[n]

\* Material that was paid for leaves the directory only when it is served, cannot be
\* built, moves with its collection, or is deleted (_leftover, on_success, on_broken).
MaterialKept ==
    [][\A n \in Names : \A d \in staged[n] \ staged'[n] :
          \/ link[n] = d
          \/ bake[n].at = "building" /\ bake[n].date = d
          \/ \E m \in Names : d \in staged'[m]
          \/ \E r \in Requests : request[r].job = "delete" /\ request[r].name = n]_vars

================================================================================
