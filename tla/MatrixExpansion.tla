-------------------------- MODULE MatrixExpansion --------------------------
(***************************************************************************)
(* The variants of a job: executionsemantics/matrix.go, which the service  *)
(* uses, beside handlers/matrix.go, which "git ci run" uses.  Coordinates  *)
(* are functions from some keys to values, a dimension is the sequence of  *)
(* its values, and text, quoting and labels are left out.                  *)
(* A definition marked "Mutant" is a bug that could have been made in the  *)
(* next one; no specification uses it.                                     *)
(***************************************************************************)
EXTENDS Integers, Sequences, FiniteSets, SequencesExt

CONSTANTS
    KeyOrder,        \* the names of dimensions, sorted
    MaxDimensions,   \* MaxMatrixDimensions
    MaxVariants,     \* MaxMatrixVariants
    Jobs             \* the jobs that are tried: [matrix, include, exclude, groups, total]

VARIABLES
    job,             \* types.Job: its strategy and its parallel keyword
    variants,        \* ExpandMatrix: the coordinates in order; none is an error
    local,           \* expandMatrixJobs: the coordinates by the name of the job
    done

vars == <<job, variants, local, done>>

NoCoordinates == [k \in {} |-> k]
Keys(f) == SelectSeq(KeyOrder, LAMBDA k : k \in DOMAIN f)

-----------------------------------------------------------------------------
(* Both: products and matches *)

Extend(combinations, key, values) ==
    FlattenSeq([i \in DOMAIN combinations |->
        [j \in DOMAIN values |-> (key :> values[j]) @@ combinations[i]]])

Cartesian(dims) ==
    FoldLeft(LAMBDA cs, k : Extend(cs, k, dims[k]), <<NoCoordinates>>, Keys(dims))

\* A missing key has the empty value, which no entry here asks for.
\* Mutant: only an entry that names every key excludes.
ExactMatch(c, entry) == c = entry
PartialMatch(c, entry) == \A k \in DOMAIN entry : k \in DOMAIN c /\ c[k] = entry[k]

\* Mutant: any entry may be merged into any combination.
AnyInclude(c, entry) == TRUE
CompatibleInclude(c, entry) == \A k \in DOMAIN entry \cap DOMAIN c : c[k] = entry[k]

Filter(cs, excludes) ==
    SelectSeq(cs, LAMBDA c : \A i \in DOMAIN excludes : ~PartialMatch(c, excludes[i]))

-----------------------------------------------------------------------------
(* The service *)

\* One pass over the include list; an entry is compared with the combinations
\* as they were before the first entry.
\* Mutant: it is compared with what earlier entries made of them.
ApplyToResult(originals, results, entry) ==
    LET hit == {i \in DOMAIN originals : CompatibleInclude(results[i], entry)}
    IN IF hit = {} THEN Append(results, entry)
       ELSE [i \in DOMAIN results |-> IF i \in hit THEN entry @@ results[i] ELSE results[i]]
ApplyInclude(originals, results, entry) ==
    LET hit == {i \in DOMAIN originals : CompatibleInclude(originals[i], entry)}
    IN IF hit = {} THEN Append(results, entry)
       ELSE [i \in DOMAIN results |-> IF i \in hit THEN entry @@ results[i] ELSE results[i]]

TooManyKeys(dims) == Cardinality(DOMAIN dims) > MaxDimensions
NoValues(dims) == \E k \in DOMAIN dims : dims[k] = <<>>

\* cartesianValues: its errors, and the limit on the product.
ProductFails(dims) ==
    TooManyKeys(dims) \/ NoValues(dims) \/ Len(Cartesian(dims)) > MaxVariants

ExpandGitHub(j) ==
    LET kept == Filter(Cartesian(j.matrix), j.exclude)
    IN IF j.matrix = NoCoordinates THEN j.include
       ELSE IF ProductFails(j.matrix) THEN <<>>
       ELSE FoldLeft(LAMBDA rs, e : ApplyInclude(kept, rs, e), kept, j.include)

ExpandGitLab(groups) ==
    IF \E i \in DOMAIN groups : groups[i] # NoCoordinates /\ ProductFails(groups[i])
    THEN <<>>
    ELSE FlattenSeq([i \in DOMAIN groups |->
             IF groups[i] = NoCoordinates THEN <<>> ELSE Cartesian(groups[i])])

Combinations(j) ==
    IF j.matrix # NoCoordinates \/ j.include # <<>> THEN ExpandGitHub(j)
    ELSE IF j.groups # <<>> THEN ExpandGitLab(j.groups)
    ELSE IF j.total > MaxVariants THEN <<>>
    ELSE IF j.total > 0 THEN [i \in 1..j.total |-> "CI_NODE_INDEX" :> i @@ "CI_NODE_TOTAL" :> j.total]
    ELSE <<NoCoordinates>>

\* Mutant: a duplicate is accepted.
AcceptAll(cs) == Len(cs) > MaxVariants
Rejected(cs) == Len(cs) > MaxVariants \/ ~IsInjective(cs)

ExpandMatrix(j) == IF Rejected(Combinations(j)) THEN <<>> ELSE Combinations(j)

-----------------------------------------------------------------------------
(* git ci run *)

\* includeMatchesCombo: a shared key is required.
LocalMatches(c, entry) == DOMAIN entry \cap DOMAIN c # {} /\ CompatibleInclude(c, entry)

\* Mutant: an entry that extends a combination is appended too.
LocalIncludeAppends(originals, results, entry) == Append(results, entry)
LocalInclude(originals, results, entry) ==
    LET hit == {i \in DOMAIN originals : LocalMatches(originals[i], entry)}
    IN IF hit = {} THEN Append(results, entry)
       ELSE [i \in DOMAIN results |-> IF i \in hit THEN entry @@ results[i] ELSE results[i]]

LocalCombinations(j) ==
    LET all == Cartesian([k \in {q \in DOMAIN j.matrix : j.matrix[q] # <<>>} |-> j.matrix[k]])
    IN Filter(FoldLeft(LAMBDA rs, e : LocalInclude(all, rs, e), all, j.include), j.exclude)

\* formatCombination writes the values in the order of the keys, not the keys.
FormatMatrixJobName(c) == [i \in 1..Cardinality(DOMAIN c) |-> c[Keys(c)[i]]]

\* A map: the last of two combinations with one name stays.
LocalJobs(j) ==
    LET cs == LocalCombinations(j)
        last(n) == CHOOSE i \in DOMAIN cs : /\ FormatMatrixJobName(cs[i]) = n
                                            /\ \A h \in (i + 1)..Len(cs) : FormatMatrixJobName(cs[h]) # n
    IN IF j.matrix = NoCoordinates \/ cs = <<>> THEN <<>> :> NoCoordinates
       ELSE [n \in {FormatMatrixJobName(cs[i]) : i \in DOMAIN cs} |-> cs[last(n)]]

-----------------------------------------------------------------------------
Init == job \in Jobs /\ variants = <<>> /\ local = NoCoordinates /\ done = FALSE

Expand ==
    /\ ~done /\ done' = TRUE
    /\ variants' = ExpandMatrix(job)
    /\ local' = LocalJobs(job)
    /\ UNCHANGED job

Next == Expand

Spec == Init /\ [][Next]_vars

-----------------------------------------------------------------------------
(* Properties *)

Expanded == done /\ variants # <<>>
Original(c) == DOMAIN job.matrix \subseteq DOMAIN c
OnMatrix(c) == [k \in DOMAIN job.matrix |-> c[k]]
Survives(c) == \A i \in DOMAIN job.exclude : \E k \in DOMAIN job.exclude[i] :
                   k \notin DOMAIN c \/ c[k] # job.exclude[i][k]

\* Job keys are made of the index of a variant, so two must never have the
\* same coordinates and there are never more than the limit
\* (TestMatrixBoundsAndDuplicateFailClosed).
MatrixTypeOK ==
    Expanded => /\ Len(variants) \in 1..MaxVariants
                /\ \A i, k \in DOMAIN variants : variants[i] = variants[k] => i = k

\* What an exclude entry names on the matrix does not run, unless an include
\* entry is itself such a variant (TestExpandGitHubMatrixIncludeExclude).
ExcludedNeverRuns ==
    Expanded /\ job.matrix # NoCoordinates =>
        \A i \in DOMAIN variants :
            \/ variants[i] \in {job.include[k] : k \in DOMAIN job.include}
            \/ Original(variants[i]) /\ Survives(OnMatrix(variants[i]))

\* Every other combination of the matrix runs, once, whatever is included.
NothingElseLost ==
    Expanded /\ job.matrix # NoCoordinates =>
        LET all == Cartesian(job.matrix)
        IN \A c \in {all[i] : i \in DOMAIN all} :
               Survives(c) =>
                   \E i \in DOMAIN variants : Original(variants[i]) /\ OnMatrix(variants[i]) = c

\* An included value reaches each combination of the matrix its entry fits,
\* and the last entry that gives a key decides; an entry that fits none is a
\* variant of its own, and nothing is merged into that one.
IncludesReachTheirTargets ==
    Expanded /\ job.matrix # NoCoordinates =>
        LET all == Cartesian(job.matrix)
            kept == {all[i] : i \in {h \in DOMAIN all : Survives(all[h])}}
            of(c) == {n \in DOMAIN job.include : CompatibleInclude(c, job.include[n])}
        IN /\ \A c \in kept : \A n \in of(c) : \A k \in DOMAIN job.include[n] :
                 (\A later \in of(c) : later > n => k \notin DOMAIN job.include[later]) =>
                    \E i \in DOMAIN variants :
                        /\ Original(variants[i]) /\ OnMatrix(variants[i]) = c
                        /\ k \in DOMAIN variants[i] /\ variants[i][k] = job.include[n][k]
           /\ \A n \in DOMAIN job.include :
                 (\A c \in kept : n \notin of(c)) =>
                    \E i \in DOMAIN variants : variants[i] = job.include[n]

\* "git ci run" runs the jobs the service would: where each include entry
\* shares a key with the matrix, no name is used twice, and nothing is both
\* included and excluded, which the two take in a different order.
LocalAgrees ==
    (/\ Expanded /\ job.matrix # NoCoordinates
     /\ \A n \in DOMAIN job.include : DOMAIN job.include[n] \cap DOMAIN job.matrix # {}
     /\ job.include = <<>> \/ job.exclude = <<>>
     /\ Cardinality(DOMAIN local) = Len(LocalCombinations(job)))
    => {local[n] : n \in DOMAIN local} = {variants[i] : i \in DOMAIN variants}
=============================================================================
