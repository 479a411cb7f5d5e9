------------------------------ MODULE Accounts ------------------------------
(***************************************************************************)
(* An account: what its password opens (AccountCustody), the one-time rows *)
(* of its other sign-ins (Challenges) and the apps that may use its key    *)
(* (AppConnect).  They meet where a recovery nonce that was spent lets a   *)
(* recovery start and where a sign-in begins an unlock, which are inputs   *)
(* of AccountCustody and AppConnect; they share no other state, so a       *)
(* behaviour follows one of them.                                          *)
(***************************************************************************)
EXTENDS AccountCustody, Challenges, AppConnect

VARIABLE side

accountVars == <<custodyVars, challengeVars, connectVars, side>>

Sides == {"custody", "challenges", "connect"}

Init ==
  /\ side \in Sides /\ CustodyInit /\ ChallengeInit /\ ConnectInit
  /\ side = "challenges" \/ links = 0
  /\ side = "connect" \/ ~askFirst

Next ==
  /\ UNCHANGED side
  /\ \/ side = "custody" /\ CustodyNext /\ UNCHANGED <<challengeVars, connectVars>>
     \/ side = "challenges" /\ ChallengeNext /\ UNCHANGED <<custodyVars, connectVars>>
     \/ side = "connect" /\ ConnectNext /\ UNCHANGED <<custodyVars, challengeVars>>

Spec == Init /\ [][Next]_accountVars /\ CustodyFairness

\* The values that every variable of the three modules takes.
TypeOK == CustodyTypeOK /\ ChallengeTypeOK /\ ConnectTypeOK /\ side \in Sides
=============================================================================
