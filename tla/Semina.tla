--------------------------------- MODULE Semina ---------------------------------
(***************************************************************************)
(* What fills the database besides the requests, side by side: the demo    *)
(* pratiche of a start (Demo), the start itself with its accounts (Avvio), *)
(* the script seed_demo_data (ScriptSeed).  They share no state here, so a *)
(* behaviour is one of one of them - `caso` - and the others rest; what    *)
(* holds of every behaviour here holds of every part.                      *)
(***************************************************************************)
EXTENDS Demo

CONSTANTS Guidate,         \* bound: the pratiche that plans are driven through
          MaxFile,         \* bound: the files of one of these
          Semi, Altri, Ident, Regole, Ambienti,
          Corse, RichiesteSeme, IdentSeme, MaxUtenti, MaxPratiche, DecisioniSeme

VARIABLES caso,            \* the part the behaviour is of
          ambiente, passoAvvio, usa, daFare, db, mem, confermate,
          conti, praticheSeme, corsa, letta

Avvii == INSTANCE Avvio WITH passo <- passoAvvio

Script == INSTANCE ScriptSeed WITH
            Richieste <- RichiesteSeme, Ident <- IdentSeme, Decisioni <- DecisioniSeme,
            pratiche <- praticheSeme

ASSUME SeminaAssumption ==
  /\ Avvii!AvvioAssumption
  /\ MaxUtenti \in Nat /\ MaxPratiche \in Nat

varsAvvio == <<ambiente, passoAvvio, usa, daFare, db, mem, confermate>>

varsSeme == <<conti, praticheSeme, corsa, letta>>

varsSemina == <<vars, varsAvvio, varsSeme, caso>>

-----------------------------------------------------------------------------

InitSemina ==
  /\ caso \in {"bozze", "piani", "produzione", "soli", "script"}
  /\ Init
  /\ Avvii!Init
  /\ caso = "produzione" => ambiente.produzione /\ ambiente.uri
  /\ caso \notin {"produzione", "soli"} => ambiente = CHOOSE a \in Ambienti : TRUE
  /\ Script!Init

\* Bound: only drafts, none of those that plans are for, and no write but the
\* addition of a file.
PassoBozze ==
  /\ Next
  /\ \A p \in Processi : resto'[p] = << >>
  /\ \A x \in DOMAIN pratiche' : x \notin Guidate /\ pratiche'[x].stato = "BOZZA"
  /\ \A w \in DOMAIN lette' : w \in Processi /\ lette'[w].scrive # lette'[w].letto

\* Bound: beside the pratiche that plans are for there is one draft of the
\* applicant, which comes first, so that a start may find enough pratiche.  One
\* that someone else changed is not followed any further.
SoloGuidate ==
  /\ \A x \in DOMAIN pratiche : pratiche[x].segue # "altrui"
  /\ Cardinality(DOMAIN pratiche' \ Guidate) = (IF pratiche' = << >> THEN 0 ELSE 1)
  /\ \A x \in DOMAIN pratiche' :
       IF x \in Guidate
       THEN pratiche'[x].piano # 0 /\ pratiche'[x].docs <= MaxFile
       ELSE pratiche'[x].piano = 0 /\ pratiche'[x].stato = "BOZZA"
  /\ \A w \in DOMAIN lette' : lette'[w].id \in Guidate
  /\ \A p \in Processi : files'[p] \subseteq Guidate

\* Bound: a handler works beside one start at a time, and while no change of a
\* state was undone.
UnAvvio ==
  DOMAIN lette' \cap Gestori # {} =>
    /\ Cardinality({p \in Processi : passo'[p] \notin {"spento", "attivo"}}) <= 1
    /\ \A x \in DOMAIN pratiche' : "stato" \notin pratiche'[x].perse

PassoPiani == Next /\ SoloGuidate /\ UnAvvio

\* Bound: one process is up at a time, and nobody registers.
PassoSoli ==
  /\ Avvii!Next
  /\ Cardinality({p \in Processi : passoAvvio'[p] # "spento"}) <= 1
  /\ DOMAIN db'.conti \subseteq Semi
  /\ \A p \in Processi : DOMAIN mem'[p].conti \subseteq Semi

NextSemina ==
  /\ \/ /\ \/ caso = "bozze" /\ PassoBozze
           \/ caso = "piani" /\ PassoPiani
        /\ UNCHANGED <<varsAvvio, varsSeme>>
     \/ /\ \/ caso = "produzione" /\ Avvii!Next
           \/ caso = "soli" /\ PassoSoli
        /\ UNCHANGED <<vars, varsSeme>>
     \/ /\ caso = "script"
        /\ Script!Next
        /\ UNCHANGED <<vars, varsAvvio>>
  /\ UNCHANGED caso

SpecSemina == InitSemina /\ [][NextSemina]_varsSemina

-----------------------------------------------------------------------------
(* Properties.  Those of Demo bear their names; these are the others.      *)

\* The type of the state: TypeOK of Demo, of Avvio and of ScriptSeed.
TypeSemina == TypeOK /\ Avvii!TypeOK /\ Script!TypeOK

\* Block rules survive every stop, in production (Avvio).
BlocchiDuranoInProduzione == Avvii!BlocchiDuranoInProduzione

\* Whoever serves has the seed accounts, in every environment (Avvio).
SemiPresenti == Avvii!SemiPresenti

\* No start and no script removes an account or changes its id (Avvio).
IdentitaStabile == Avvii!IdentitaStabile

\* A start replaces a chosen password only if seeding is enabled (Avvio).
SemeSoloSeAbilitato == Avvii!SemeSoloSeAbilitato

\* A pratica of the script belongs to an account and is as its timeline says
\* (ScriptSeed).
SemeCoerente == Script!SemeCoerente

=============================================================================
