------------------------------- MODULE MCContents ------------------------------
(***************************************************************************)
(* What chiezo keeps, in three machines side by side.  `machine`, chosen at *)
(* the start from Machines, is the only one that moves:                    *)
(*   "files"       Generations: a collection that may be renamed once and  *)
(*                 back, one request beside the runs;                      *)
(*   "documents"   Documents: the titles a, b and the numbered a (2), a (3)*)
(*                 over three bakes;                                       *)
(*   "partitions"  Partitions: five titles, two to a partition.            *)
(***************************************************************************)
EXTENDS Naturals, Sequences

CONSTANTS
    Machines,
    Names, FirstName, Requests, Tools, LAST,                        \* Generations
    Titles, Numbered, Answers, Scopes, Modes, Places, Fixings,      \* Documents
    KEEP_HALF, DOUBT, MAX_BAKES, MAX_LOCKS,
    N, Lookers, TARGET, MAX_RUNS, MAX_NEW, ANYTIME, EARLY           \* Partitions

VARIABLES
    machine,
    gens, link, staged, bake, request, today, home, kept, earlier,
    docs, locks, requeue, last, bakes, marked,
    stock, ledger, looked, now

-----------------------------------------------------------------------------
\* The documents: what runs bring, what they put before the AI, what people fix.

DocTitles == {"a", "b", "a (2)", "a (3)"}
DocNumbered == [t \in DocTitles |-> IF t = "a" THEN <<"a (2)", "a (3)">> ELSE <<>>]
DocPlaces == {"p", "q"}
DocFixings == {<<"a", "p">>, <<"a (2)", "p">>, <<"a", "">>}
DocScopes == {{}, {"a", "b"}}
DocModes == {"extract", "feed", "crawl", "add", "collect", "edit"}

Item(t, mark, url, body, at, fact) ==
    [title |-> t, mark |-> mark, url |-> url, body |-> body, at |-> at, fact |-> fact]

\* The thing a, its twin at another place, and b with a's url or its own.
A == Item("a", "plain", "u", "x", "p", "f")
Twin == Item("a", "plain", "", "y", "q", "g")
Same == Item("b", "plain", "u", "x", "", "")
Other == Item("b", "plain", "v", "x", "", "")
Fact == Item("b", "plain", "v", "", "", "f")
Marked(t, mark) == Item(t, mark, "", "x", "", "")
Retried == Item("a", "retry", "", "", "q", "")

DocAnswers == {<<A>>, <<Twin>>, <<Fact>>, <<A, Same>>, <<Twin, Twin>>, <<Twin, Other>>,
              <<Retried, Other>>, <<Marked("a", "tomb")>>, <<Marked("b", "tomb")>>,
              <<Marked("a", "restore")>>, <<Marked("a", "archive")>>}

-----------------------------------------------------------------------------

F == INSTANCE Generations
D == INSTANCE Documents
P == INSTANCE Partitions WITH Sweeps <- Lookers, docs <- stock

ASSUME ContentsAssumption ==
    F!GenerationsAssumption /\ D!DocumentsAssumption /\ P!PartitionsAssumption

fVars == <<gens, link, staged, bake, request, today, home, kept, earlier>>
dVars == <<docs, locks, requeue, last, bakes, marked>>
pVars == <<stock, ledger, looked, now>>

MCInit ==
    /\ machine \in Machines
    /\ F!Init /\ D!Init /\ P!Init

MCNext ==
    /\ UNCHANGED machine
    /\ \/ machine = "files" /\ F!Next /\ UNCHANGED <<dVars, pVars>>
       \/ machine = "documents" /\ D!Next /\ UNCHANGED <<fVars, pVars>>
       \/ machine = "partitions" /\ P!Next /\ UNCHANGED <<fVars, dVars>>

MCSpec == MCInit /\ [][MCNext]_<<machine, fVars, dVars, pVars>>

-----------------------------------------------------------------------------
\* The properties of the three modules, under their names there.

\* Each machine's state has its types.
TypeOK ==
    /\ machine = "files" => F!TypeOK
    /\ machine = "documents" => D!TypeOK
    /\ machine = "partitions" => P!TypeOK

\* Whatever a bake, a rollback, a deletion or a rename is cut short at: what is served
\* resolves, nothing that was served is gone, the generation before can be gone back
\* to, and material that was paid for is baked.
FilesAreKept == []F!LinkResolves /\ []F!NeverUnserved /\ []F!EarlierKept /\ F!MaterialKept

\* What was decided about a document holds against later answers: its removal, the
\* place a person fixed, what an AI corrected.
DecidedStays == D!RemovedStaysRemoved /\ D!LockHolds /\ D!FactOfAiStays

\* An answer changes only what it is about: what the AI was not shown is not replaced,
\* keeps its mark of not having been looked through, and is not added twice.
UnreadIsLeftAlone == D!UnseenIsNotReplaced /\ D!UnreviewedIsEarned /\ D!NoUrlTwice

\* One bad day of the AI does not wipe out what has grown.
BadDayIsStopped == D!BadDayIsStopped

\* Every document is in one partition, and a mark says that its sweep looked at what
\* lay in the partition then, through every split and join.
MarkIsEarned == machine = "partitions" => P!OnePartitionEach /\ P!MarkIsEarned

\* Cut anew, a partition is marked only for what was looked at.
UnseenIsUnmarked == P!UnseenIsUnmarked

================================================================================
