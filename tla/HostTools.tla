------------------------------ MODULE HostTools ------------------------------
(***************************************************************************)
(* The command groups of galdra that share no state with each other: `epk`,*)
(* profiles with encrypt and decrypt, the registry client and `shamir`.    *)
(* area says which one a behaviour is about.                               *)
(***************************************************************************)
EXTENDS EphemeralOffers, CipherMail, RegistryClient, ShamirShares

VARIABLE area

Areas == {"offers", "mail", "registry", "shamir"}

toolVars == <<area, epkVars, mailVars, registryVars, shamirVars>>

ToolsInit ==
    /\ area \in Areas
    /\ OffersInit /\ MailInit /\ RegistryInit /\ ShamirInit

ToolsNext ==
    /\ UNCHANGED area
    /\ \/ area = "offers" /\ OffersNext /\ UNCHANGED <<mailVars, registryVars, shamirVars>>
       \/ area = "mail" /\ MailNext /\ UNCHANGED <<epkVars, registryVars, shamirVars>>
       \/ area = "registry" /\ RegistryNext /\ UNCHANGED <<epkVars, mailVars, shamirVars>>
       \/ area = "shamir" /\ ShamirNext /\ UNCHANGED <<epkVars, mailVars, registryVars>>

ToolsSpec == ToolsInit /\ [][ToolsNext]_toolVars

(* The tables, files, messages and running commands of all four groups have *)
(* the shapes their code gives them, and stay within the bounds.            *)
HostToolsTypeOK ==
    /\ area \in Areas
    /\ OffersTypeOK /\ MailTypeOK /\ RegistryTypeOK /\ ShamirTypeOK
=============================================================================
