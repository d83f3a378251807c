-------------------------------- MODULE Identita --------------------------------
(***************************************************************************)
(* Who may come in, side by side: the refresh sessions, alone or with the  *)
(* access tokens signed with them (Accesso, over Sessioni), and the        *)
(* accounts, without or with a second factor (Account).  They share the    *)
(* choice of the store and no other state, so a behaviour is one of one of *)
(* them - `caso` - and the others rest; what holds of every behaviour here *)
(* holds of every part.                                                    *)
(***************************************************************************)
EXTENDS Accesso

CONSTANTS Token, Segreti,
          TokenFattore   \* bound on the tokens of an account with a second factor

VARIABLES caso,          \* the part the behaviour is of
          utenti, tokens, scaduti, voloConti, generati, consumi, mostrati,
          guastoConti, sovrapposti

Conti == INSTANCE Account WITH volo <- voloConti, guasto <- guastoConti

varsConti == <<utenti, tokens, scaduti, voloConti, generati, consumi, mostrati,
               guastoConti, sovrapposti>>

varsSessioni == <<sessioni, scadute, volo, padre, chiusi, guasto>>

varsIdentita == <<varsAccesso, varsConti, caso>>

-----------------------------------------------------------------------------

InitIdentita ==
  /\ caso \in {"sessioni", "accessi", "conti", "fattore"}
  /\ InitAccesso
  /\ Conti!Init

\* Bound: a session with access tokens does not live to its ExpiresAt.
PassoAccessi ==
  /\ NextAccesso
  /\ DOMAIN padre' \cap Scadono = {}

\* Bound: no secret is ever set.
PassoConti ==
  /\ Conti!Next
  /\ \A u \in DOMAIN utenti' : utenti'[u].segreto = Vuoto

PassoFattore ==
  /\ Conti!Next
  /\ Cardinality(DOMAIN generati') <= TokenFattore

NextIdentita ==
  /\ \/ /\ caso = "sessioni"
        /\ Next
        /\ UNCHANGED <<accessi, daQuanto, varsConti>>
     \/ /\ caso = "accessi"
        /\ PassoAccessi
        /\ UNCHANGED varsConti
     \/ /\ \/ caso = "conti" /\ PassoConti
           \/ caso = "fattore" /\ PassoFattore
        /\ UNCHANGED <<varsSessioni, accessi, daQuanto>>
  /\ UNCHANGED caso

SpecIdentita == InitIdentita /\ [][NextIdentita]_varsIdentita

-----------------------------------------------------------------------------
(* Properties.  Those of Sessioni and Accesso bear their names; these are  *)
(* the others.                                                             *)

\* The type of the state: TypeAccesso of Accesso, TypeOK of Account.
TypeIdentita == TypeAccesso /\ Conti!TypeOK

\* A token is accepted once (Account).
TokenUnaVolta == Conti!TokenUnaVolta

\* Only a token for it sets a password or activates an account (Account).
SoloConToken == Conti!SoloConToken

\* An invited user who has set his password is active (Account).
InvitoCompleto == Conti!InvitoCompleto

\* The second factor is on only with a secret its user has seen (Account).
SecondoFattoreUsabile == Conti!SecondoFattoreUsabile

=============================================================================
