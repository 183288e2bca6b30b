------------------------------ MODULE MCDesktop ------------------------------
(***************************************************************************)
(* Three parts of the program that talk to services of the desktop:        *)
(* the keychain, the shortcut portal and the notification server.  They    *)
(* share no state, so they are checked side by side: one part moves in a   *)
(* behaviour, and the others stay as they begin.                           *)
(***************************************************************************)
EXTENDS KeyStore, ShortcutPortal, Notifications

VARIABLE part

DesktopInit ==
    /\ KeyInit /\ PortalInit /\ NoteInit
    /\ \/ part = "keys" /\ desktop = "portal" /\ saved = "Toggle" /\ enabled
       \/ part = "shortcuts" /\ NextStart = NoKey /\ enabled
       \/ part = "notifications" /\ NextStart = NoKey /\ desktop = "portal" /\ saved = "Toggle"

DesktopNext ==
    /\ part' = part
    /\ \/ part = "keys" /\ KeyNext /\ UNCHANGED <<portalVars, noteVars>>
       \/ part = "shortcuts" /\ PortalNext /\ UNCHANGED <<keyVars, noteVars>>
       \/ part = "notifications" /\ NoteNext /\ UNCHANGED <<keyVars, portalVars>>

DesktopSpec == DesktopInit /\ [][DesktopNext]_<<part, keyVars, portalVars, noteVars>>

\* The three parts' type invariants.
PartsTypeOK == KeyTypeOK /\ PortalTypeOK /\ NoteTypeOK
=============================================================================
