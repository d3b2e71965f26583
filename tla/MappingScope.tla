---------------------------- MODULE MappingScope ----------------------------
(***************************************************************************)
(* The interval and scope arithmetic of mapping assertions                 *)
(* (registry/interval.py) and the shape of a claim (registry/mapping.py).  *)
(*                                                                         *)
(* A date is an integer between DateMin and DateMax, Python's date.min and *)
(* date.max; None stands for SQL NULL.  The scope kind of a claim is       *)
(* determined by its issuer: "global" claims have issuer None, "issuer"    *)
(* claims have one (the model validator and the CHECK constraint agree).   *)
(***************************************************************************)
EXTENDS Integers

CONSTANTS
  None,       \* NULL
  DateMin,    \* date.min
  DateMax,    \* date.max
  Concepts,   \* rows of source.concept
  Issuers,    \* rows of source.issuer
  Metrics,    \* canonical metric keys
  Defs,       \* what the registry can say of a metric, its name included
  Hashes, definition_hash,  \* the review hash, which leaves the name out
  Proposals   \* what curators may state

ASSUME DatesAssumption == DateMin \in Int /\ DateMax \in Int /\ DateMin <= DateMax
ASSUME NoneAssumption  == None \notin Int \union Issuers \union Defs \union Hashes
ASSUME HashAssumption  == definition_hash \in [Defs -> Hashes]

Dates == DateMin .. DateMax

Relations == {"exact", "narrower", "broader", "related"}

(* What MappingAssertionCreate admits; a claim adds the definition hash.   *)
WellFormed == { p \in [ concept  : Concepts,
                      metric   : Metrics,
                      relation : Relations,
                      issuer   : Issuers \union {None},
                      from     : Dates \union {None},
                      to       : Dates \union {None} ] :
                \/ p.from = None
                \/ p.to = None
                \/ p.from <= p.to }

ASSUME ProposalsAssumption == Proposals \subseteq WellFormed

(* The CLAIM_FIELDS every successor copies. *)
Claim == [ stated : Proposals, hash : Hashes ]

interval_contains(from, to, period_end) ==
  \/ from = None /\ to = None
  \/ /\ period_end # None
     /\ from # None => from <= period_end
     /\ to # None => period_end <= to

intervals_overlap(left_from, left_to, right_from, right_to) ==
  LET start(d) == IF d = None THEN DateMin ELSE d
      end(d)   == IF d = None THEN DateMax ELSE d
  IN  /\ start(left_from) <= end(right_to)
      /\ start(right_from) <= end(left_to)

scopes_overlap(p, q) ==
  /\ p.issuer # None /\ q.issuer # None => p.issuer = q.issuer
  /\ intervals_overlap(p.from, p.to, q.from, q.to)

(* Whether an assertion covers the facts of one issuer's filing whose      *)
(* report period ends on period_end: the join and filter of                *)
(* _affected_facts.                                                        *)
AppliesTo(p, issuer, period_end) ==
  /\ p.issuer # None => p.issuer = issuer
  /\ interval_contains(p.from, p.to, period_end)

=============================================================================
