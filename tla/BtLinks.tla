------------------------------- MODULE BtLinks -------------------------------
(***************************************************************************)
(* What the connection table of the Bluetooth driver promises to its       *)
(* users, the HCI and LMP code that names a link by its connection handle  *)
(* or by its active-member address: links come and go one at a time, a     *)
(* handle names one link, and an address names one of the links on which   *)
(* this device is the master (bt_hci.h:1947-1955, 2069-2074).              *)
(***************************************************************************)
EXTENDS Naturals

CONSTANTS LinkHandle, LinkAddr

VARIABLE links   \* the links that are up

Role == { "MASTER", "SLAVE" }
Up == [handle : LinkHandle, am : LinkAddr, role : Role]

LinksInit == links = {}

\* A new link has a handle of its own.  The address of a link on which this
\* device is the slave was chosen by the remote master.
Connect ==
    \E l \in Up :
      /\ \A k \in links : k.handle # l.handle
      /\ l.role = "MASTER" => \A k \in links : k.role = "MASTER" => k.am # l.am
      /\ links' = links \cup {l}

Disconnect == \E l \in links : links' = links \ {l}

LinksNext == Connect \/ Disconnect

LinksSpec == LinksInit /\ [][LinksNext]_links
=============================================================================
