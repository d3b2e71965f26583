--------------------------- MODULE LedgerContract ---------------------------
(***************************************************************************)
(* What registry.mapping_assertion promises its readers: decisions appear  *)
(* one at a time, as if every command ran alone.  A candidate starts a     *)
(* chain; a decision extends the chain's current row, keeps its claim and  *)
(* follows candidate -> accepted -> rejected or candidate -> rejected; an  *)
(* exact mapping is accepted only where no other current one applies.      *)
(***************************************************************************)
EXTENDS MappingScope

CONSTANT Ids                    \* identifiers of ledger rows

ASSUME IdsAssumption == None \notin Ids

VARIABLES rows, mirror

NoRow == None

Statuses == {"candidate", "accepted", "rejected"}

Row == [ supersedes : Ids \union {None}, claim : Claim, status : Statuses ]

Written(ledger) == { i \in Ids : ledger[i] # NoRow }

Superseded(ledger, i) == \E j \in Written(ledger) : ledger[j].supersedes = i

Current(ledger) == { i \in Written(ledger) : ~ Superseded(ledger, i) }

(* The rows a new exact mapping must not collide with. *)
InForce(ledger) == { i \in Current(ledger) :
                       /\ ledger[i].status = "accepted"
                       /\ ledger[i].claim.stated.relation = "exact" }

Referenced(ledger) == { ledger[i].claim.stated.metric : i \in Written(ledger) }

MayFollow(before, after) ==
  \/ before = "candidate" /\ after \in {"accepted", "rejected"}
  \/ before = "accepted" /\ after = "rejected"

Collides(ledger, claim) ==
  \E i \in InForce(ledger) :
    /\ ledger[i].claim.stated.concept = claim.stated.concept
    /\ scopes_overlap(claim.stated, ledger[i].claim.stated)

-----------------------------------------------------------------------------

ContractInit == rows = [i \in Ids |-> NoRow] /\ mirror \in [Metrics -> Defs \union {None}]

Propose ==
  \E i \in Ids, c \in Claim :
    /\ rows[i] = NoRow
    /\ mirror[c.stated.metric] # None
    /\ rows' = [rows EXCEPT ![i] = [supersedes |-> None, claim |-> c, status |-> "candidate"]]
    /\ UNCHANGED mirror

Decide ==
  \E i \in Ids, base \in Current(rows), after \in {"accepted", "rejected"} :
    /\ rows[i] = NoRow
    /\ MayFollow(rows[base].status, after)
    /\ after = "accepted" /\ rows[base].claim.stated.relation = "exact"
         => ~ Collides(rows, rows[base].claim)
    /\ rows' = [rows EXCEPT ![i] =
                  [supersedes |-> base, claim |-> rows[base].claim, status |-> after]]
    /\ UNCHANGED mirror

Mirror ==
  /\ mirror' \in [Metrics -> Defs \union {None}]
  /\ \A m \in Referenced(rows) : mirror'[m] # None
  /\ UNCHANGED rows

ContractNext == Propose \/ Decide \/ Mirror

ContractSpec == ContractInit /\ [][ContractNext]_<<rows, mirror>>

=============================================================================
