------------------------------- MODULE Documents -------------------------------
(***************************************************************************)
(* The documents of one collection from generation to generation: what a   *)
(* run brought (_collect_items) is laid over the generation before         *)
(* (collect.py: drop_unseen_edits, _stream_docs, held, bake_lines) and the *)
(* result is baked as a whole.  Titles are the key.                        *)
(*                                                                         *)
(* A document is abstracted to its id, url, body, place (lat/lon), one     *)
(* carried fact, the marks "_chiezo_removed", "_chiezo_archived" and       *)
(* "_chiezo_unreviewed", and whether the fact is among its ai_keys.  A     *)
(* collection of the flow kind, which drops old documents, is left out.    *)
(***************************************************************************)
EXTENDS Integers, Sequences, FiniteSets, FiniteSetsExt

CONSTANTS
    Titles,       \* the titles, as title_key makes them
    Numbered,     \* Numbered[t]: the titles "t (2)", "t (3)" ... in this order
    Answers,      \* the sequences of items a run may bring
    Scopes,       \* the sets of titles a run may put before the AI
    Modes,        \* the kinds of run, a subset of AllModes
    Places,       \* the coordinates
    Fixings,      \* the <<title, place>> a person may fix; the place "" releases
    KEEP_HALF,    \* keep_ratio 0.5 (the guard against a bad day) or 0
    DOUBT,        \* locked_doubt_tag is set
    MAX_BAKES, MAX_LOCKS

(* An item of an answer: "mark" is the tombstone, restore or archive tag,  *)
(* or "retry" for a row check_collected looked up again by itself.         *)
Marks == {"plain", "tomb", "restore", "archive", "retry"}
AllModes == {"extract", "feed", "crawl", "add", "collect", "edit"}

Items == [title : Titles, mark : Marks, url : STRING, body : STRING, at : Places \cup {""},
          fact : STRING]

DocumentsAssumption ==
    /\ Numbered \in [Titles -> Seq(Titles)]
    /\ Answers \subseteq Seq(Items)
    /\ Scopes \subseteq SUBSET Titles
    /\ Fixings \subseteq Titles \X (Places \cup {""})
    /\ Modes \subseteq AllModes
    /\ KEEP_HALF \in BOOLEAN /\ DOUBT \in BOOLEAN
    /\ MAX_BAKES \in Nat /\ MAX_LOCKS \in Nat

VARIABLES
    docs,     \* the served generation: title -> document, or NoDoc
    locks,    \* locks[t]: the place a person fixed t to, or ""
    requeue,  \* requeue_at: everything is to be looked through again
    last,     \* the run that baked last: its mode, what it put before the AI,
              \* what of it was answered for, what it brought
    bakes, marked

vars == <<docs, locks, requeue, last, bakes, marked>>

NoDoc == [id |-> 0]
Known(ds) == {t \in Titles : ds[t] # NoDoc}
Alive(d) == d # NoDoc /\ ~d.removed

Init ==
    /\ docs = [t \in Titles |-> NoDoc]
    /\ locks = [t \in Titles |-> ""]
    /\ requeue = FALSE
    /\ last = [mode |-> "", scope |-> {}, shown |-> {}, by |-> {}]
    /\ bakes = 0 /\ marked = 0

Highest(numbers) == CHOOSE n \in numbers : \A m \in numbers : m <= n

\* what the mode means: edits_what_is_there, only_new, asks_ai, carries_facts
Edits(mode) == mode = "edit"
OnlyNew(mode) == mode \in {"extract", "feed", "add"}
AsksAi(mode) == mode \in {"add", "collect", "edit"}
CarriesFacts(mode) == mode = "extract"

--------------------------------------------------------------------------------
(* drop_unseen_edits: an item that would replace a document the AI was not *)
(* shown is dropped, or is another thing of the same name elsewhere.       *)
Distinct(raw, d) == raw.at # "" /\ d.at # "" /\ raw.at # d.at

Unused(t, taken) ==
    LET free == {i \in DOMAIN Numbered[t] : Numbered[t][i] \notin taken}
    IN  IF free = {} THEN t ELSE Numbered[t][Min(free)]

Replaces(raw, allowed) == raw.mark # "retry" /\ raw.title \in Known(docs) \ allowed

\* Mutant: whatever comes back replaces, shown or not.
SeenEditsAll(answer, allowed) == answer

\* What one more item makes of what is kept so far, and of the titles that are used.
SeenNext(acc, raw, allowed) ==
    LET t == Unused(raw.title, acc.used \cup Known(docs))
    IN  IF ~Replaces(raw, allowed) THEN [acc EXCEPT !.kept = Append(@, raw)]
        ELSE IF ~Distinct(raw, docs[raw.title]) THEN acc
        ELSE [kept |-> Append(acc.kept, [raw EXCEPT !.title = t]), used |-> acc.used \cup {t}]

SeenEdits(answer, allowed) ==
    LET upTo[i \in 0..Len(answer)] ==
            IF i = 0 THEN [kept |-> <<>>, used |-> {answer[k].title : k \in DOMAIN answer}]
            ELSE SeenNext(upTo[i - 1], answer[i], allowed)
    IN  upTo[Len(answer)].kept

(* Edits.take: what came for a title; of two with one title the later.     *)
None == [title |-> ""]
TakenFor(answer, t) ==
    LET at == {i \in DOMAIN answer : answer[i].title = t}
    IN  IF at = {} THEN None ELSE answer[CHOOSE i \in at : \A k \in at : k <= i]

--------------------------------------------------------------------------------
\* slim_removed: of a removed document the facts are not kept
Slim(d) == IF d.removed THEN [d EXCEPT !.fact = "", !.ai = FALSE] ELSE d

\* _reviewed, if the document was put before the AI
Reviewed(d) == [d EXCEPT !.unrev = FALSE]

\* Mutant: what an AI touched is overwritten too.
WithFactsAnyway(d, raw) == IF raw.fact = "" THEN d ELSE [d EXCEPT !.fact = raw.fact]

\* _with_facts and _with_new_facts: what a machine brings for what is there
WithFacts(d, raw) == IF d.ai \/ raw.fact = "" THEN d ELSE [d EXCEPT !.fact = raw.fact]

\* Mutant: the lack of a review is lost with the new fact.
WithNewFactsReviewed(d, raw) ==
    IF d.fact # "" \/ raw.fact = "" THEN d ELSE [d EXCEPT !.fact = raw.fact, !.unrev = FALSE]

WithNewFacts(d, raw) == IF d.fact # "" \/ raw.fact = "" THEN d ELSE [d EXCEPT !.fact = raw.fact]

\* _to_doc merged over the document before (_merge_extra): what is not said stays
Said(new, old) == IF new = "" THEN old ELSE new
Rewritten(d, raw) ==
    [d EXCEPT !.url = Said(raw.url, @), !.body = Said(raw.body, @), !.at = Said(raw.at, @),
              !.fact = Said(raw.fact, @),
              !.removed = FALSE, !.archived = raw.mark = "archive", !.unrev = FALSE]

\* _stamped by an AI: the facts it changed are its own from now on
Stamped(d, before, mode) ==
    [d EXCEPT !.ai = @ \/ (AsksAi(mode) /\ d.fact # before.fact)]

\* _found_again
FoundAgain(d, raw, mode) == d.archived /\ AsksAi(mode) /\ raw.mark # "tomb"

\* _buried
Buried(d) == [d EXCEPT !.removed = TRUE, !.unrev = FALSE]

(* _stream_docs, for a document of the generation before and what came for *)
(* its title.                                                              *)
KeptWithFacts(d, raw, mode) ==
    IF CarriesFacts(mode) THEN WithFacts(d, raw) ELSE WithNewFacts(d, raw)

\* Mutant: what is removed may be brought back by anyone.
StaysRemovedNot(d, raw) == FALSE

StaysRemoved(d, raw) == d.removed /\ raw.mark # "restore"

Replaced(d, raw, mode) ==
    LET doc == Rewritten(d, raw)
        back == d.archived /\ ~FoundAgain(d, raw, mode)
        full == IF back THEN [doc EXCEPT !.archived = TRUE] ELSE doc
    IN  IF Edits(mode) \/ full.archived # d.archived
        THEN Stamped(full, d, mode) ELSE full

NextDoc(t, answer, mode, shown) ==
    LET d == Slim(docs[t])
        raw == TakenFor(answer, t)
    IN  CASE raw = None -> IF t \in shown THEN Reviewed(d) ELSE d
          [] raw # None /\ raw.mark = "retry" ->
                IF d.removed THEN d ELSE [d EXCEPT !.at = Said(raw.at, @)]
          [] OnlyNew(mode) /\ raw # None /\ raw.mark # "retry" /\ ~FoundAgain(d, raw, mode) ->
                KeptWithFacts(d, raw, mode)
          [] Edits(mode) /\ raw # None /\ raw.mark = "tomb" ->
                IF DOUBT /\ ~d.removed /\ locks[t] # "" THEN Reviewed(d) ELSE Buried(d)
          [] OTHER ->
                IF StaysRemoved(d, raw) THEN d
                ELSE IF raw.body = "" /\ ~Edits(mode) THEN d
                ELSE Replaced(d, raw, mode)

(* ... and for what came beyond it, in the order it came.                  *)
Fresh(raw, id, mode) ==
    [id |-> id, url |-> raw.url, body |-> raw.body, at |-> raw.at, fact |-> raw.fact,
     removed |-> FALSE, archived |-> raw.mark = "archive", unrev |-> ~AsksAi(mode),
     ai |-> FALSE]

\* Mutant: no url counts as brought by another.
IncomingOfAll(answer, mode) == {}

\* _incoming_urls: a roster (extract) is not asked for its urls
Incoming(answer, mode) ==
    IF mode = "extract" THEN {} ELSE {answer[i].url : i \in DOMAIN answer} \ {""}

NextId == Highest({docs[t].id : t \in Titles}) + 1

\* What may be added under t, unless another item brings its url before it.
Fits(t, answer, mode) ==
    LET raw == TakenFor(answer, t)
    IN  /\ raw # None /\ t \notin Known(docs)
        /\ raw.mark # "retry" /\ ~(Edits(mode) /\ raw.mark = "tomb")
        /\ raw.body # ""
        /\ raw.url \notin Incoming(answer, mode) \cap {docs[u].url : u \in Known(docs)}

Added(answer, mode) ==
    LET first(t) == Min({i \in DOMAIN answer : answer[i].title = t})
        fit == {t \in Titles : Fits(t, answer, mode)}
        url(t) == TakenFor(answer, t).url
        new == {t \in fit : url(t) = "" \/ \A u \in fit : url(u) = url(t) => first(t) <= first(u)}
        place(t) == Cardinality({u \in new : first(u) < first(t)})
    IN  [t \in Titles |-> IF t \in new THEN Fresh(TakenFor(answer, t), NextId + place(t), mode)
                          ELSE NoDoc]

--------------------------------------------------------------------------------

\* Mutant: only what is new is held.
HeldIfNew(t, d) ==
    IF locks[t] = "" \/ ~Alive(d) \/ t \in Known(docs) THEN d ELSE [d EXCEPT !.at = locks[t]]

\* held: the place a person fixed is put back, whoever moved it
Held(t, d) == IF locks[t] = "" \/ ~Alive(d) THEN d ELSE [d EXCEPT !.at = locks[t]]

\* bake_lines: everything to be looked through again, but what was just shown
Requeued(t, d, shown) ==
    IF requeue /\ Alive(d) /\ ~d.archived /\ t \notin shown THEN [d EXCEPT !.unrev = TRUE] ELSE d

Generation(answer, mode, shown) ==
    LET new == Added(answer, mode)
        of(t) == IF t \in Known(docs) THEN NextDoc(t, answer, mode, shown) ELSE new[t]
    IN  [t \in Titles |-> Requeued(t, Held(t, of(t)), shown)]

\* shrink_blocked: the documents this answer marks as removed
Buries(answer, mode) ==
    {t \in Known(docs) :
        /\ Edits(mode) /\ TakenFor(answer, t) # None /\ TakenFor(answer, t).mark = "tomb"
        /\ ~(DOUBT /\ ~docs[t].removed /\ locks[t] # "")}
ShrinkBlocked(answer, mode) ==
    KEEP_HALF /\ 2 * Cardinality(Buries(answer, mode)) > Cardinality(Known(docs))

(* A bound of the model: Numbered names enough numbers for the things that *)
(* get one (the code tries 998).                                           *)
NumbersLeft(answer, scope) ==
    LET renamed == {i \in DOMAIN answer : /\ Replaces(answer[i], scope)
                                          /\ Distinct(answer[i], docs[answer[i].title])}
        taken == Known(docs) \cup {answer[i].title : i \in DOMAIN answer}
        numbers(t) == {Numbered[t][k] : k \in DOMAIN Numbered[t]}
    IN  \A i \in renamed :
            Cardinality(renamed) <= Cardinality(numbers(answer[i].title) \ taken)

(* One run that ends in a bake: the AI was shown the titles of scope (no   *)
(* machine shows any), and the answer covered those in shown.              *)
Bake(answer, mode, scope, shown) ==
    LET items == IF Edits(mode) THEN SeenEdits(answer, scope) ELSE answer
        next == Generation(items, mode, shown)
    IN  /\ bakes < MAX_BAKES
        /\ scope \subseteq Known(docs) /\ (mode \notin {"add", "edit"} => scope = {})
        /\ shown \subseteq scope
        /\ \A i \in DOMAIN answer :
              answer[i].mark = "retry" =>
                  /\ Alive(docs[answer[i].title])
                  /\ \A k \in DOMAIN answer \ {i} : answer[k].title # answer[i].title
        /\ Edits(mode) => NumbersLeft(answer, scope)
        /\ ~ShrinkBlocked(items, mode)
        /\ Known(next) # {}
        /\ docs' = next
        /\ last' = [mode |-> mode, scope |-> scope, shown |-> shown,
                    by |-> {<<items[i].title, TakenFor(items, items[i].title).mark>> :
                                i \in DOMAIN items}]
        /\ requeue' = FALSE
        /\ bakes' = bakes + 1
        /\ UNCHANGED <<locks, marked>>

\* set_lock
SetLock(t, p) ==
    /\ marked < MAX_LOCKS
    /\ locks' = [locks EXCEPT ![t] = p]
    /\ marked' = marked + 1
    /\ UNCHANGED <<docs, requeue, last, bakes>>

\* request_requeue
RequestRequeue ==
    /\ ~requeue /\ marked < MAX_LOCKS
    /\ requeue' = TRUE
    /\ marked' = marked + 1
    /\ UNCHANGED <<docs, locks, last, bakes>>

Next ==
    \/ \E a \in Answers, m \in Modes, scope \in Scopes : \E shown \in {{}, scope} :
          Bake(a, m, scope, shown)
    \/ \E f \in Fixings : SetLock(f[1], f[2])
    \/ RequestRequeue

Spec == Init /\ [][Next]_vars

--------------------------------------------------------------------------------
(* Every document has an id of its own; what is fresh is neither removed   *)
(* nor a thing of before.                                                  *)
TypeOK ==
    /\ \A t, u \in Known(docs) : docs[t].id = docs[u].id => t = u
    /\ \A t \in Known(docs) :
          /\ docs[t].id \in 1..Cardinality(Known(docs))
          /\ docs[t].body # ""
          /\ docs[t].at \in Places \cup {""}
          /\ {docs[t].removed, docs[t].archived, docs[t].unrev, docs[t].ai} \subseteq BOOLEAN
    /\ locks \in [Titles -> Places \cup {""}]
    /\ last.shown \subseteq last.scope /\ last.scope \subseteq Known(docs)
    /\ requeue \in BOOLEAN /\ bakes \in 0..MAX_BAKES /\ marked \in 0..MAX_LOCKS

Baked == bakes' = bakes + 1
BroughtBy(t) == {m \in Marks : <<t, m>> \in last'.by}

(* A run that edits leaves a document it did not put before the AI as it   *)
(* was, whatever the AI returned under its title, but for a place fixed by *)
(* a person, a requeue, and a place looked up again (drop_unseen_edits).   *)
UnseenIsNotReplaced ==
    [][(Baked /\ Edits(last'.mode)) =>
          \A t \in Known(docs) \ last'.scope :
              LET d == Slim(docs[t]) e == docs'[t]
              IN  /\ e.body = d.body /\ e.url = d.url /\ e.fact = d.fact
                  /\ e.removed = d.removed /\ e.archived = d.archived
                  /\ e.unrev \in {d.unrev, requeue}
                  /\ e.at # d.at => "retry" \in BroughtBy(t) \/ e.at = locks[t]]_vars

(* No document vanishes from one generation to the next, and one that is   *)
(* removed is served again only at an item marked as a restoration.        *)
RemovedStaysRemoved ==
    [][Baked => \A t \in Known(docs) :
          /\ docs'[t] # NoDoc /\ docs'[t].id = docs[t].id
          /\ docs[t].removed /\ ~docs'[t].removed => "restore" \in BroughtBy(t)]_vars

(* A place a person fixed is the place of the living document after every  *)
(* bake, whoever moved it; with a tag for doubts no AI removes it.         *)
LockHolds ==
    [][Baked => \A t \in Titles :
          locks[t] # "" =>
              /\ Alive(docs'[t]) => docs'[t].at = locks[t]
              /\ DOUBT /\ Alive(docs[t]) => Alive(docs'[t])]_vars

(* A document loses the mark "not looked through" only if an AI answered   *)
(* for it: it was shown and covered, or an AI returned it (or a machine    *)
(* that may rewrite everything did); and after a requeue everything that   *)
(* lives and was not shown carries the mark.                               *)
UnreviewedIsEarned ==
    [][Baked => \A t \in Known(docs) :
          /\ docs[t].unrev /\ ~docs'[t].unrev =>
                \/ t \in last'.shown
                \/ BroughtBy(t) # {} /\ (AsksAi(last'.mode) \/ last'.mode = "crawl")
          /\ requeue /\ Alive(docs'[t]) /\ ~docs'[t].archived /\ t \notin last'.shown =>
                docs'[t].unrev]_vars

(* What a run adds has no url that the generation before or another added  *)
(* document has; a roster is taken as it is (_incoming_urls).              *)
NoUrlTwice ==
    [][(Baked /\ last'.mode # "extract") =>
          \A t \in Known(docs') \ Known(docs) :
              docs'[t].url # "" =>
                  /\ \A u \in Known(docs) : docs[u].url # docs'[t].url
                  /\ \A u \in Known(docs') \ (Known(docs) \cup {t}) : docs'[u].url # docs'[t].url]_vars

(* A fact an AI settled is not overwritten by a machine that only adds     *)
(* (ai_keys).                                                              *)
FactOfAiStays ==
    [][(Baked /\ last'.mode \in {"extract", "feed"}) =>
          \A t \in Known(docs) : docs[t].ai /\ ~docs[t].removed => docs'[t].fact = docs[t].fact]_vars

(* keep_ratio: the one day an AI says that everything can go does not cost *)
(* more than half of what there is (shrink_blocked).  Violated: documents  *)
(* removed earlier count as kept.                                          *)
BadDayIsStopped ==
    [][(Baked /\ KEEP_HALF /\ Edits(last'.mode)) =>
          LET alive(ds) == {t \in Known(ds) : Alive(ds[t])}
          IN  2 * Cardinality(alive(docs') \cap alive(docs)) >= Cardinality(alive(docs))]_vars
================================================================================
