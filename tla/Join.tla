-------------------------------- MODULE Join --------------------------------
(***************************************************************************)
(* `dsh-helm join` on new devices (cli/src/pair.ts enrollClient, runJoin)   *)
(* against the pairing service of the hub (module Pairing).  Every attempt  *)
(* has a node id and an enroll id of its own (randomUUID): an attempt is    *)
(* its node id and the caller the hub sees.  A device has one node.json.    *)
(*                                                                         *)
(* An attempt ends on its timer of 15 s, on the 10 s of its request, on an  *)
(* error or close of its socket, or on the reply; what it left behind at    *)
(* the hub goes on.  Writing node.json follows the reply in the same turn.  *)
(***************************************************************************)
EXTENDS Pairing

CONSTANTS
  Attempt,     \* invocations of join; node ids and callers of Pairing
  Device

JoinAssumption == Attempt = Node /\ Attempt = Caller

VARIABLES
  join,        \* per attempt
  file         \* node.json of each device: node id, and the code of its token

joinVars == <<join, file>>
allVars == <<vars, joinVars>>

Idle == [stage |-> "idle", device |-> None, code |-> None, force |-> FALSE, asked |-> "no", reply |-> None]

JoinInit ==
  /\ Init
  /\ join = [a \in Attempt |-> Idle] /\ file = [d \in Device |-> None]

Open == {"dialing", "asking"}

\* An existing node.json is replaced only with --force.
Checked(d, force) == file[d] = None \/ force

\* runJoin, up to the dial.
Start(a) ==
  /\ join[a].stage = "idle"
  /\ \E d \in Device, h \in Code, force \in BOOLEAN :
       /\ Checked(d, force)
       /\ join' = [join EXCEPT ![a] =
            [Idle EXCEPT !.stage = "dialing", !.device = d, !.code = h, !.force = force]]
  /\ UNCHANGED <<vars, file>>

\* The welcome arrives and the request leaves.
Welcomed(a) ==
  /\ join[a].stage = "dialing"
  /\ join' = [join EXCEPT ![a].stage = "asking", ![a].asked = "sent"]
  /\ UNCHANGED <<vars, file>>

\* The hub serves the request, whether or not the attempt is still there.
Served(a) ==
  /\ join[a].asked = "sent"
  /\ LET h == join[a].code IN
     \/ Redeem(a, h, a) /\ join' = [join EXCEPT ![a].asked = "served", ![a].reply = "token"]
     \/ /\ RateLimited(a) \/ WrongCode(a, h) \/ LockedCode(a, h) \/ SpentCode(a, h)
        /\ join' = [join EXCEPT ![a].asked = "served", ![a].reply = "refused"]
  /\ UNCHANGED file

\* The hub dies while it serves the request: there is no reply.
HubDies(a) ==
  /\ join[a].asked = "sent" /\ DieWhileRedeeming(join[a].code, a)
  /\ join' = [join EXCEPT ![a].asked = "served"]
  /\ UNCHANGED file

\* Mutant of Hears: a reply after the end of the attempt is taken.
HearsLate(a) == join[a].stage \in {"asking", "failed"}

\* finish: the first outcome settles the attempt.
Hears(a) == join[a].stage = "asking"

\* Mutant of Written: a refusal is not told from a token.
WrittenAny(a) == [file EXCEPT ![join[a].device] = [node |-> a, code |-> join[a].code]]

\* node.json is written when the reply carries a token.
Written(a) ==
  IF join[a].reply = "token" THEN [file EXCEPT ![join[a].device] = [node |-> a, code |-> join[a].code]]
  ELSE file

Replied(a) ==
  /\ Hears(a) /\ join[a].reply # None
  /\ join' = [join EXCEPT ![a].stage = IF join[a].reply = "token" THEN "joined" ELSE "failed",
                          ![a].reply = None]
  /\ file' = Written(a)
  /\ UNCHANGED vars

\* Timers, errors and the end of the socket.
GivesUp(a) ==
  /\ join[a].stage \in Open
  /\ join' = [join EXCEPT ![a].stage = "failed"]
  /\ UNCHANGED <<vars, file>>

\* The request was lost with its socket.
RequestLost(a) ==
  /\ join[a].asked = "sent" /\ join[a].stage = "failed"
  /\ join' = [join EXCEPT ![a].asked = "lost"]
  /\ UNCHANGED <<vars, file>>

JoinStep(a) ==
  \/ Start(a) \/ Welcomed(a) \/ Served(a) \/ HubDies(a)
  \/ Replied(a) \/ GivesUp(a) \/ RequestLost(a)

JoinNext ==
  \/ \E a \in Attempt : JoinStep(a)
  \/ /\ \E h \in Code : CreatePairingCode(h) \/ Expire(h)
     /\ UNCHANGED joinVars
  \/ Restart /\ UNCHANGED joinVars

JoinSpec == JoinInit /\ [][JoinNext]_allVars

-----------------------------------------------------------------------------
(* Properties *)

JoinTypeOK ==
  /\ TypeOK
  /\ \A a \in Attempt : /\ join[a].stage \in {"idle", "joined", "failed"} \cup Open
                        /\ join[a].device \in Device \cup {None} /\ join[a].code \in Code \cup {None} /\ join[a].force \in BOOLEAN
                        /\ join[a].asked \in {"no", "sent", "served", "lost"}
                        /\ join[a].reply \in {"token", "refused", None}
                        /\ join[a].asked = "no" => join[a].reply = None
  /\ file \in [Device -> [node : Attempt, code : Code] \cup {None}]
  /\ \A d \in Device : file[d] # None => join[file[d].node].stage = "joined"

\* The node.json of a device works: the hub has stored its very token for its
\* node id, and the code it cost was consumed for it and by no other.
FileIsKnownToHub ==
  \A d \in Device : file[d] # None =>
    /\ tokens[file[d].node] = file[d].code
    /\ rows[file[d].code].by = file[d].node

\* One code makes one node at most, and one device holds it, whatever attempts
\* race for it, time out, and are served after they have given up.
OneDevicePerCode ==
  \A d, e \in Device : file[d] # None /\ file[e] # None /\ file[d].code = file[e].code => d = e

\* An attempt that has reported its failure stays failed and leaves no
\* identity behind, although the hub may serve it afterwards.
FailureIsFinal ==
  [][\A a \in Attempt : join[a].stage = "failed" =>
       /\ join'[a].stage = "failed"
       /\ \A d \in Device : file'[d] = file[d] \/ file'[d].node # a]_allVars

\* What pair.ts says of the check: without --force an existing identity is not
\* overwritten.
IdentityKept ==
  [][\A d \in Device : file[d] # None /\ file'[d] # file[d] => join[file'[d].node].force]_allVars
=============================================================================
