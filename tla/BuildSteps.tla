------------------------------ MODULE BuildSteps ------------------------------
(***************************************************************************)
(* The step registry of pkg/build/build.go: an ordered list of build       *)
(* steps, each filed under a category, with the operations that extend it  *)
(* (append, insert relative to a named step, replace, insert at the end of *)
(* a category) and the default registration of cmd/engine.go.              *)
(*                                                                         *)
(* The order of the list is the order in which a build runs its steps, so  *)
(* "publish runs after build" is exactly "the list is sorted by category". *)
(* All operations run on one goroutine, before any build starts.           *)
(***************************************************************************)
EXTENDS Integers, Sequences, SequencesExt

CONSTANTS
  Step,          \* the values that implement the BuildStep interface
  NameOf,        \* NameOf[s]: what s.Name() returns; several steps may share it
  AsyncSteps,    \* the steps whose IsAsync() returns true
  DefaultSteps,  \* the <<category, step>> pairs InitBuildSteps registers, in order
  CallCategory,  \* the category strings callers pass to AddToCategory
  MaxSteps       \* bound on the length of the list

CategoryOrder ==
  <<"auth", "prebuild", "build", "postbuild", "quality", "apply", "prepublish", "publish">>

Category == {CategoryOrder[i] : i \in 1..8}

ASSUME RegistryAssumption ==
  /\ NameOf \in [Step -> STRING]
  /\ AsyncSteps \subseteq Step
  /\ DefaultSteps \in Seq(Category \X Step)
  /\ CallCategory \subseteq STRING
  /\ MaxSteps \in Nat

VARIABLES
  Steps,   \* bs.Steps: the list of BuildContext values
  init,    \* bs.init
  next,    \* 0, or the index of the default step InitBuildSteps adds next
  err      \* whether the last call returned an error

vars == <<Steps, init, next, err>>

-----------------------------------------------------------------------------
BuildContext == [build : Step, category : Category, async : BOOLEAN]

\* The position of a category in categoryOrder.
Rank(c) == CHOOSE i \in 1..8 : CategoryOrder[i] = c

\* The index of the first list entry whose step has the given name, 0 if none.
FindByName(name) == SelectInSeq(Steps, LAMBDA bctx : NameOf[bctx.build] = name)

FindFirstStepInCategory(c) == SelectInSeq(Steps, LAMBDA bctx : bctx.category = c)

\* Mutant: the search for a later category starts at the category itself.
LaterRanksOwn(c) == {r \in Rank(c)..8 : FindFirstStepInCategory(CategoryOrder[r]) # 0}

\* The ranks after c's that some entry of the list has.
LaterRanks(c) == {r \in (Rank(c) + 1)..8 : FindFirstStepInCategory(CategoryOrder[r]) # 0}

\* Before the first entry of the next category in use, else at the end.
InsertPos(c) ==
  IF LaterRanks(c) = {}
  THEN Len(Steps) + 1
  ELSE FindFirstStepInCategory(CategoryOrder[Min(LaterRanks(c))])

-----------------------------------------------------------------------------
\* Mutant: an insertion that loses the entry it displaces.
InsertOverwriting(p, e) == IF p <= Len(Steps) THEN ReplaceAt(Steps, p, e) ELSE Append(Steps, e)

InsertAtCategoryEndOverwriting(c, s, async) ==
  /\ err' = (c \notin Category)
  /\ Steps' = IF c \in Category
              THEN InsertOverwriting(InsertPos(c), [build |-> s, category |-> c, async |-> async])
              ELSE Steps

\* insertAtCategoryEnd: an unknown category is an error and changes nothing.
InsertAtCategoryEnd(c, s, async) ==
  /\ err' = (c \notin Category)
  /\ Steps' = IF c \in Category
              THEN InsertAt(Steps, InsertPos(c), [build |-> s, category |-> c, async |-> async])
              ELSE Steps

\* Mutant: the inserted step is filed under Build, whatever its neighbour.
InsertRelativeAsBuild(name, s, async, before) ==
  LET i == FindByName(name) IN
  /\ err' = (i = 0)
  /\ Steps' = IF i = 0 THEN Steps
              ELSE InsertAt(Steps, IF before THEN i ELSE i + 1,
                            [build |-> s, category |-> "build", async |-> async])

\* insertRelativeToStep: next to the first entry with that name, in its category.
InsertRelativeToStep(name, s, async, before) ==
  LET i == FindByName(name) IN
  /\ err' = (i = 0)
  /\ Steps' = IF i = 0 THEN Steps
              ELSE InsertAt(Steps, IF before THEN i ELSE i + 1,
                            [build |-> s, category |-> Steps[i].category, async |-> async])

-----------------------------------------------------------------------------
\* NewBuildSteps: every initial step is filed under Build; a non-empty list
\* counts as initialised.
Init ==
  /\ \E initial \in UNION {[1..n -> Step] : n \in 0..2} :
       /\ Steps = [i \in DOMAIN initial |->
                     [build |-> initial[i], category |-> "build", async |-> initial[i] \in AsyncSteps]]
       /\ init = (Len(initial) > 0)
  /\ next = 0
  /\ err = FALSE

\* A caller's operation runs when InitBuildSteps is not in progress.
Call == next = 0 /\ Len(Steps) < MaxSteps /\ UNCHANGED <<init, next>>

\* Add and AddAsync append, filed under Build, whatever the list ends with.
AddEntry(s, async) ==
  /\ Call
  /\ Steps' = Append(Steps, [build |-> s, category |-> "build", async |-> async])
  /\ err' = FALSE

Add(s) == AddEntry(s, FALSE)
AddAsync(s) == AddEntry(s, TRUE)

AddBefore(name, s) == Call /\ InsertRelativeToStep(name, s, FALSE, TRUE)
AddAfter(name, s) == Call /\ InsertRelativeToStep(name, s, FALSE, FALSE)
AddAsyncBefore(name, s) == Call /\ InsertRelativeToStep(name, s, TRUE, TRUE)
AddAsyncAfter(name, s) == Call /\ InsertRelativeToStep(name, s, TRUE, FALSE)

\* Replace keeps the entry's category and takes the step's own async setting.
Replace(name, s) ==
  LET i == FindByName(name) IN
  /\ next = 0
  /\ err' = (i = 0)
  /\ Steps' = IF i = 0 THEN Steps
              ELSE ReplaceAt(Steps, i, [build |-> s, category |-> Steps[i].category,
                                        async |-> s \in AsyncSteps])
  /\ UNCHANGED <<init, next>>

AddToCategory(c, s) == Call /\ InsertAtCategoryEnd(c, s, FALSE)
AddAsyncToCategory(c, s) == Call /\ InsertAtCategoryEnd(c, s, TRUE)

\* InitBuildSteps (also reached from GetDefaultBuildSteps) does nothing on an
\* initialised list; otherwise it adds the default steps one after the other.
InitBuildSteps ==
  /\ next = 0 /\ ~init
  /\ next' = 1
  /\ UNCHANGED <<Steps, init, err>>

\* addStep: the step's own async setting chooses the operation.
AddStep ==
  /\ next \in 1..Len(DefaultSteps)
  /\ InsertAtCategoryEnd(DefaultSteps[next][1], DefaultSteps[next][2],
                         DefaultSteps[next][2] \in AsyncSteps)
  /\ next' = next + 1
  /\ UNCHANGED init

FinishInit ==
  /\ next = Len(DefaultSteps) + 1
  /\ init' = TRUE
  /\ next' = 0
  /\ UNCHANGED <<Steps, err>>

-----------------------------------------------------------------------------
Registration == InitBuildSteps \/ AddStep \/ FinishInit

\* The operations that take the category from the caller or from a neighbour.
Hooks ==
  \E s \in Step :
    \/ \E n \in {NameOf[t] : t \in Step} :
         \/ AddBefore(n, s) \/ AddAfter(n, s)
         \/ AddAsyncBefore(n, s) \/ AddAsyncAfter(n, s)
         \/ Replace(n, s)
    \/ \E c \in CallCategory : AddToCategory(c, s) \/ AddAsyncToCategory(c, s)

Appends == \E s \in Step : Add(s) \/ AddAsync(s)

HookNext == Registration \/ Hooks
Next == HookNext \/ Appends

\* The registry used as cmd/engine.go uses it, and by hooks: without Add/AddAsync.
HookSpec == Init /\ [][HookNext]_vars
\* The registry under its whole interface.
Spec == Init /\ [][Next]_vars

-----------------------------------------------------------------------------
TypeOK ==
  /\ Steps \in Seq(BuildContext)
  /\ init \in BOOLEAN
  /\ next \in 0..(Len(DefaultSteps) + 1)
  /\ err \in BOOLEAN

\* The steps are in the order of their categories, in which a build runs them.
CategorySorted ==
  \A i, j \in 1..Len(Steps) : i < j => Rank(Steps[i].category) <= Rank(Steps[j].category)

\* Only Add and AddAsync break the order: no hook, replacement or insertion, known
\* category or not, ever makes a step of a later category run before one of an
\* earlier category (insertAtCategoryEnd, insertRelativeToStep, Replace;
\* runAllMatchingBuilds runs the list in order).
HooksKeepOrder == [][CategorySorted /\ HookNext => CategorySorted']_vars

\* t is s with entries inserted or one entry exchanged in its category.
Extends(s, t) ==
  \/ \E p \in 1..Len(t) : RemoveAt(t, p) = s
  \/ /\ Len(t) = Len(s)
     /\ \E p \in 1..Len(s) : /\ t[p].category = s[p].category
                             /\ \A q \in 1..Len(s) \ {p} : t[q] = s[q]

\* No operation loses, duplicates or reorders a registered step: the nested
\* append over bs.Steps[:insertPos] and bs.Steps[insertPos:] shares one backing
\* array, and an insertion that wrote before it read would overwrite the tail.
StepsKept == [][Steps' # Steps => Extends(Steps, Steps')]_vars

\* On an ordered list AddToCategory puts the new step after every other step of
\* its category (insertAtCategoryEnd: "insert at the end of a category").
AtCategoryEnd ==
  [][\A c \in Category, s \in Step : CategorySorted /\ AddToCategory(c, s) =>
       \E p \in 1..Len(Steps') :
         /\ Steps'[p].build = s /\ Steps'[p].category = c
         /\ RemoveAt(Steps', p) = Steps
         /\ \A q \in (p + 1)..Len(Steps') : Steps'[q].category # c]_vars
=============================================================================
