--------------------------- MODULE RewardzProofApi ----------------------------
(* GET /rewardz/proof/:authority (src/src/api.rs) beside the publishers.  A    *)
(* request reads the on-chain root, then the earnings, and answers 200 only    *)
(* when the tree it rebuilds has that root.  Chain, rows and keepers keep      *)
(* moving between the two reads.                                               *)
EXTENDS RewardzPublisher

CONSTANT Requests

VARIABLES asked,      \* authority a request is about, NoOne when not running
          onchain,    \* the account value the request read
          reply       \* status, root and epoch of the last answer

apiVars == <<asked, onchain, reply>>
allVars == <<vars, apiVars>>

NoOne == "no one"
NoReply == [status |-> 0, about |-> NoOne, epoch |-> 0, root |-> Root({})]

ApiInit == /\ Init
           /\ asked = [q \in Requests |-> NoOne]
           /\ onchain = [q \in Requests |-> Uninitialised]
           /\ reply = [q \in Requests |-> NoReply]

Close(q, answer) == /\ asked' = [asked EXCEPT ![q] = NoOne]
                    /\ onchain' = [onchain EXCEPT ![q] = Uninitialised]
                    /\ reply' = [reply EXCEPT ![q] = answer]

Failed(status) == [NoReply EXCEPT !.status = status]

(* A request for a well-formed authority reads the RewardzRoot account.        *)
ReadOnchainRoot(q, a, v) ==
  /\ asked[q] = NoOne
  /\ v \in Views
  /\ v.epoch > 0
  /\ asked' = [asked EXCEPT ![q] = a]
  /\ onchain' = [onchain EXCEPT ![q] = v]
  /\ reply' = [reply EXCEPT ![q] = NoReply]
  /\ UNCHANGED vars

(* The account is missing, or the RPC read fails.                              *)
Unavailable(q) ==
  /\ asked[q] = NoOne
  /\ Close(q, Failed(503))
  /\ UNCHANGED vars

DatabaseError(q) ==
  /\ asked[q] # NoOne
  /\ Close(q, Failed(500))
  /\ UNCHANGED vars

OnlyEmptyMismatch(q) == Leaves(committed) = {} /\ onchain[q].rows # {}

(* The tree rebuilt from the rows visible now does not have the root read.     *)
RootMismatch(q) == Root(committed) # Root(onchain[q].rows)

Answer(q) ==
  /\ asked[q] # NoOne
  /\ Close(q, IF RootMismatch(q) THEN Failed(503)
              ELSE [status |-> IF asked[q] \in Leaves(committed) THEN 200 ELSE 404,
                    about |-> asked[q], epoch |-> onchain[q].epoch,
                    root |-> Root(committed)])
  /\ UNCHANGED vars

ApiNext == \E q \in Requests :
             \/ \E a \in Redeemable, v \in Views : ReadOnchainRoot(q, a, v)
             \/ Unavailable(q)
             \/ DatabaseError(q)
             \/ Answer(q)

RailNext == (Next /\ UNCHANGED apiVars) \/ ApiNext

RailSpec == ApiInit /\ [][RailNext]_allVars

(* A client keeps asking, every request is answered, and one that read the     *)
(* present account is not failed by the database for ever.                     *)
ClientFairness(q) ==
  /\ WF_allVars(Answer(q) \/ DatabaseError(q))
  /\ \A a \in Redeemable :
       /\ SF_allVars(ReadOnchainRoot(q, a, chain))
       /\ SF_allVars(asked[q] = a /\ onchain[q] = chain /\ Answer(q))

FairRailSpec == /\ RailSpec
                /\ \A p \in Keepers : KeeperFairness(p)
                /\ \A q \in Requests : ClientFairness(q)

-------------------------------------------------------------------------------
(* "the returned root MUST equal the on-chain RewardzRoot.root": when the      *)
(* earnings are read, a 200 serves the root the chain holds right then, even   *)
(* if the root it was compared with was read epochs ago; and a 404 tells the   *)
(* truth, the chain pays that authority nothing.                               *)
AnswersMatchChain ==
  [][\A q \in Requests : Answer(q) =>
       /\ reply'[q].status = 200 => reply'[q].root = Root(chain.rows)
       /\ reply'[q].status = 404 => asked[q] \notin Leaves(chain.rows)]_allVars

(* "A subsequent publish closes the gap": whatever an authority has earned, a  *)
(* client that keeps asking is eventually served a proof for at least that     *)
(* much, though ticks, transactions, reads and requests keep failing.          *)
Serves(q, a, n) == /\ reply[q].status = 200
                   /\ reply[q].about = a
                   /\ reply[q].root[a] >= n

EventuallyServed ==
  \A q \in Requests, a \in Redeemable : \A n \in 1..Cumulative(Rows, a) :
    Cumulative(committed, a) >= n ~> Serves(q, a, n)
===============================================================================
