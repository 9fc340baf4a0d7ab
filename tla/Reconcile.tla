----------------------------- MODULE Reconcile -----------------------------
(***************************************************************************)
(* What a plan is held to (src/graph_coder/plans.py: parse_markdown_plan,  *)
(* check_traceability, collect_readiness_defects), and what                *)
(* `plan reconcile` makes of the completed units when it is revised        *)
(* (reconcile_completed_units, and _cmd_plan_reconcile of cli.py).         *)
(*                                                                         *)
(* Headings, ids and the other frontmatter are text and left out.          *)
(***************************************************************************)
EXTENDS FiniteSets

CONSTANTS
    Documents,      \* contents of plan files, as far as they are told apart
    Units,          \* ids of units
    Requirements,   \* ids of requirements
    Examples,       \* ids of acceptance examples
    Works,          \* what a worker is asked, without the dependencies: the
                    \* fields semantic_unit_hash covers
    WholeWorks,     \* those of them in which no required field is empty
    NoAnswer        \* nothing reconciled yet

\* detailed says that the required fields the hash leaves out are there, and
\* that progress contract, retry policy and attempt limit are as they must be.
ImplementationUnit ==
    [work : Works, dependencies : SUBSET Units, detailed : BOOLEAN,
     evidence : BOOLEAN, status : {"pending", "completed", "done"},
     requirements : SUBSET Requirements, examples : SUBSET Examples]

\* requirements and examples name the units that serve them; released says that
\* the release gate has all its truths, zeros and bounds.
PlanType(d) ==
    /\ DOMAIN d.units \subseteq Units
    /\ \A u \in DOMAIN d.units : d.units[u] \in ImplementationUnit
    /\ d.requirements \in [DOMAIN d.requirements -> SUBSET Units]
    /\ DOMAIN d.requirements \subseteq Requirements
    /\ d.examples \in [DOMAIN d.examples -> SUBSET Units]
    /\ DOMAIN d.examples \subseteq Examples
    /\ {d.ready, d.invariants, d.released} \subseteq BOOLEAN

VARIABLES
    previous,   \* the document --previous names
    current,    \* the document --file names
    answer      \* the units the command said are kept, and reopened

vars == <<previous, current, answer>>

-----------------------------------------------------------------------------

\* semantic_unit_hash, taken to be one to one.  Evidence and status are not in
\* it, and neither is half of what a unit must have.
SemanticHash(unit) == [work |-> unit.work, dependencies |-> unit.dependencies]

\* One direction each for requirements and for examples.
Mutual(named, units, names) ==
    /\ \A n \in DOMAIN named :
          /\ named[n] # {}
          /\ \A u \in named[n] : u \in DOMAIN units /\ n \in names[u]
    /\ \A u \in DOMAIN units : \A n \in names[u] :
          n \in DOMAIN named /\ u \in named[n]

\* check_traceability
Traceable(d) ==
    /\ Mutual(d.requirements, d.units,
              [u \in DOMAIN d.units |-> d.units[u].requirements])
    /\ \A u \in DOMAIN d.units : d.units[u].requirements # {}
    /\ Mutual(d.examples, d.units,
              [u \in DOMAIN d.units |-> d.units[u].examples])

\* A unit of a document whose units are us: what collect_readiness_defects
\* asks of it.
Fits(unit, us) ==
    /\ unit.work \in WholeWorks
    /\ unit.detailed
    /\ unit.evidence
    /\ unit.dependencies \subseteq us

\* collect_readiness_defects is empty.
NoDefects(d) ==
    /\ d.ready
    /\ DOMAIN d.requirements # {}
    /\ DOMAIN d.examples # {}
    /\ d.invariants
    /\ \A u \in DOMAIN d.units : Fits(d.units[u], DOMAIN d.units)
    /\ d.released

\* parse_markdown_plan takes the document.
Parses(d) == d.ready => Traceable(d) /\ NoDefects(d)

Parsed == {d \in Documents : PlanType(d) /\ Parses(d)}

-----------------------------------------------------------------------------

\* replace(current, units=(unit,), requirements=...): the plan as if it had
\* only unit u.
Alone(d, u) ==
    [d EXCEPT
        !.units = [v \in {u} |-> @[v]],
        !.requirements = [r \in {q \in DOMAIN @ : u \in @[q]} |-> @[r]]]

\* The status of unit u in what reconcile_completed_units returns.
Reconciled(old, new, u) ==
    LET unit == new.units[u]
        known == u \in DOMAIN old.units
        changed == known /\ SemanticHash(old.units[u]) # SemanticHash(unit)
        invalid == ~NoDefects(Alone(new, u))
        wasCompleted == known /\ old.units[u].status = "completed"
        evidenceMissing == wasCompleted /\ ~old.units[u].evidence
    IN CASE /\ unit.status = "completed"
            /\ ~known \/ changed \/ invalid \/ evidenceMissing -> "reopened"
         [] /\ unit.status # "completed"
            /\ wasCompleted /\ ~changed /\ ~invalid -> "completed"
         [] OTHER -> unit.status

\* A status of "done" is reported as kept, though the rest takes only
\* "completed" for complete.
Answer(old, new) ==
    [kept |-> {u \in DOMAIN new.units :
                  Reconciled(old, new, u) \in {"done", "completed"}},
     reopened |-> {u \in DOMAIN new.units :
                      Reconciled(old, new, u) = "reopened"}]

\* Any two files that parse may be named: the command does not even ask for
\* one plan_id.
Init ==
    /\ previous \in Parsed
    /\ current \in Parsed
    /\ answer = NoAnswer

\* _cmd_plan_reconcile; nothing is stored.
Reconcile ==
    /\ answer = NoAnswer
    /\ answer' = Answer(previous, current)
    /\ UNCHANGED <<previous, current>>

Next == Reconcile

Spec == Init /\ [][Next]_vars

-----------------------------------------------------------------------------

\* Work that was completed validly is not done again (docs/design-contract.md):
\* a unit that was completed with evidence, and that a plan without defects
\* lists as completed, with evidence and unchanged, is not reopened.
ValidWorkKept ==
    answer # NoAnswer =>
        \A u \in DOMAIN previous.units \cap DOMAIN current.units :
            LET old == previous.units[u]
                new == current.units[u]
            IN /\ NoDefects(current)
               /\ old.status = "completed" /\ new.status = "completed"
               /\ old.evidence /\ new.evidence
               /\ SemanticHash(old) = SemanticHash(new)
               => u \notin answer.reopened

=============================================================================
