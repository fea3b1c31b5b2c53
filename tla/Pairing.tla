------------------------------- MODULE Pairing -------------------------------
(***************************************************************************)
(* Pairing codes: one grant, made for a phone that is paired already and    *)
(* redeemed by a new one for the API token.  The wall clock may be set to   *)
(* anything between two requests.                                           *)
(*                                                                          *)
(* A code is its number: two codes of eight random characters never agree,  *)
(* and how a typed code is normalised is left out.                          *)
(***************************************************************************)
EXTENDS Integers

CONSTANTS
  CodeTtl,  \* kPairingCodeTtlSec
  MaxWall,  \* bound: the wall clock
  MaxCodes  \* bound: codes made

ASSUME PairingAssumption == CodeTtl \in Nat /\ MaxWall \in Nat /\ MaxCodes \in Nat

VARIABLES
  wall,     \* time()
  grant,    \* g_pairing_grant; code 0: none
  codes,    \* codes made so far
  redeemed, \* history: per code, how often it got the token
  refused   \* history: codes that were refused as expired

pairingVars == <<wall, grant, codes, redeemed, refused>>

NoGrant == [code |-> 0, expires_at |-> 0, used |-> TRUE]

WallClockChanges ==
  /\ \E t \in 0 .. MaxWall : wall' = t
  /\ UNCHANGED <<grant, codes, redeemed, refused>>

\* A new code replaces the last.
PairingCreate ==
  /\ codes < MaxCodes
  /\ codes' = codes + 1
  /\ grant' = [code |-> codes + 1, expires_at |-> wall + CodeTtl, used |-> FALSE]
  /\ UNCHANGED <<wall, redeemed, refused>>

Expired == wall > grant.expires_at

\* Mutant: an expired code is refused and not remembered as used.
PairingExpires_only ==
  /\ ~ grant.used /\ Expired
  /\ refused' = refused \cup {grant.code}
  /\ UNCHANGED <<wall, grant, codes, redeemed>>

\* Whatever code was typed.
PairingExpires ==
  /\ ~ grant.used /\ Expired
  /\ grant' = [grant EXCEPT !.used = TRUE]
  /\ refused' = refused \cup {grant.code}
  /\ UNCHANGED <<wall, codes, redeemed>>

\* A wrong code changes nothing, however often.
PairingRedeem(code) ==
  /\ ~ grant.used /\ ~ Expired
  /\ code = grant.code
  /\ grant' = [grant EXCEPT !.used = TRUE]
  /\ redeemed' = [redeemed EXCEPT ![code] = @ + 1]
  /\ UNCHANGED <<wall, codes, refused>>

PairingInit ==
  /\ wall = 0 /\ grant = NoGrant /\ codes = 0
  /\ redeemed = [c \in 1 .. MaxCodes |-> 0] /\ refused = {}

PairingNext ==
  \/ WallClockChanges \/ PairingCreate \/ PairingExpires
  \/ \E code \in 1 .. MaxCodes : PairingRedeem(code)

PairingSpec == PairingInit /\ [][PairingNext]_pairingVars

-----------------------------------------------------------------------------
(* Properties. *)

PairingTypeOK ==
  /\ wall \in 0 .. MaxWall /\ codes \in 0 .. MaxCodes
  /\ grant \in [code : 0 .. MaxCodes, expires_at : 0 .. MaxWall + CodeTtl, used : BOOLEAN]
  /\ redeemed \in [1 .. MaxCodes -> Nat] /\ refused \subseteq 1 .. MaxCodes

\* A code opens the API to one phone, once; one that was refused as expired never does,
\* although the clock is set back afterwards.
CodeOnce ==
  \A c \in 1 .. MaxCodes :
    redeemed[c] > 0 =>
      redeemed[c] = 1 /\ c \notin refused /\ (c = grant.code => grant.used)
=============================================================================
