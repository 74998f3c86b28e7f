------------------------------ MODULE UsbDevice ------------------------------
(***************************************************************************)
(* The UsbDevice object (src/usb_device.cpp) over the part of libusb it    *)
(* uses.  Each operator below is the effect of one libusb call, or of one  *)
(* assignment to a member, on the variables of this module; the threads    *)
(* that make the calls, and the exceptions they turn into, are in the      *)
(* modules that extend this one (Bridge).                                  *)
(*                                                                         *)
(* A handle is an identity: libusb_open returns one that is not in use, so *)
(* that a pointer kept after libusb_close never compares equal to a newer  *)
(* handle.                                                                 *)
(***************************************************************************)
CONSTANTS
  Units,     \* physical controllers that match --vid and --pid
  Handles,   \* values libusb_open may store in handle_
  None       \* nullptr

ASSUME NoneAssumption == None \notin Units /\ None \notin Handles

VARIABLES
  attached,      \* the matching units on the bus
  opened,        \* handles opened and not yet closed (libusb's own view)
  peer,          \* the unit behind an open handle, None once it was unplugged
  claimed,       \* handles whose interface is claimed
  handle,        \* UsbDevice::handle_
  disconnected   \* UsbDevice::disconnected_

usbVars == <<attached, opened, peer, claimed, handle, disconnected>>

UsbTypeOK ==
  /\ attached \subseteq Units
  /\ opened \subseteq Handles
  /\ peer \in [Handles -> Units \cup {None}]
  /\ claimed \subseteq opened
  /\ handle \in Handles \cup {None}
  /\ disconnected \in BOOLEAN

UsbInit ==
  /\ attached \in SUBSET Units
  /\ opened = {}
  /\ peer = [h \in Handles |-> None]
  /\ claimed = {}
  /\ handle = None
  /\ disconnected = FALSE

\* A handle that still reaches the unit it was opened on.
Live(h) == h \in opened /\ peer[h] # None

-----------------------------------------------------------------------------
(* The bus. *)

AttachUnit(u) ==
  /\ u \notin attached
  /\ attached' = attached \cup {u}
  /\ UNCHANGED <<opened, peer, claimed, handle, disconnected>>

\* A unit that is plugged in again is a new libusb device: the handles of the
\* old one stay dead.
DetachUnit(u) ==
  /\ u \in attached
  /\ attached' = attached \ {u}
  /\ peer' = [h \in Handles |-> IF peer[h] = u THEN None ELSE peer[h]]
  /\ UNCHANGED <<opened, claimed, handle, disconnected>>

-----------------------------------------------------------------------------
(* UsbDevice::open *)

SeveralMatch == \E u, v \in attached : u # v

\* The enumeration found exactly the unit u.
OnlyMatch(u) == attached = {u}

\* libusb_open stores the new handle in handle_.
OpenHandle(u, h) ==
  /\ u \in attached
  /\ h \notin opened
  /\ opened' = opened \cup {h}
  /\ peer' = [peer EXCEPT ![h] = u]
  /\ handle' = h
  /\ UNCHANGED <<attached, claimed, disconnected>>

\* (mutant) the flag of the last loss is kept
KeepDisconnected == UNCHANGED usbVars

\* disconnected_ = false, in open() and at the end of close()
ClearDisconnected ==
  /\ disconnected' = FALSE
  /\ UNCHANGED <<attached, opened, peer, claimed, handle>>

\* Auto-detach, claim and alternate setting, all answered by the unit.
ClaimInterface ==
  /\ Live(handle)
  /\ claimed' = claimed \cup {handle}
  /\ UNCHANGED <<attached, opened, peer, handle, disconnected>>

\* resolve_endpoint_types enumerates the bus again and takes whichever matching unit
\* comes first.  With two of them on the bus it may be the other one: both are the
\* same product, and which one it was is not kept.
EndpointsResolved ==
  /\ attached # {}
  /\ UNCHANGED usbVars

-----------------------------------------------------------------------------
(* UsbDevice::close and ~UsbDevice *)

\* (mutant) the claims of a closed handle are kept
CloseKeepsClaims ==
  /\ opened' = opened \ {handle}
  /\ peer' = [h \in Handles |-> IF h = handle THEN None ELSE peer[h]]
  /\ UNCHANGED <<attached, claimed, handle, disconnected>>

\* (mutant) the interface is released, the handle is not closed
OnlyRelease ==
  /\ claimed' = claimed \ {handle}
  /\ UNCHANGED <<attached, opened, peer, handle, disconnected>>

\* libusb_release_interface and libusb_close; handle_ still holds the pointer.
CloseHandle ==
  /\ opened' = opened \ {handle}
  /\ claimed' = claimed \ {handle}
  /\ peer' = [h \in Handles |-> IF h = handle THEN None ELSE peer[h]]
  /\ UNCHANGED <<attached, handle, disconnected>>

ForgetHandle ==
  /\ handle' = None
  /\ UNCHANGED <<attached, opened, peer, claimed, disconnected>>

-----------------------------------------------------------------------------
(* UsbDevice::transfer on a handle, and what read_input makes of it *)

CanTransfer(h) == Live(h) /\ h \in claimed

\* (mutant) a lost device reads like an idle one
IgnoreDisconnect == UNCHANGED usbVars

\* LIBUSB_ERROR_NO_DEVICE and LIBUSB_ERROR_IO raise the flag of read_input.
MarkDisconnected ==
  /\ disconnected' = TRUE
  /\ UNCHANGED <<attached, opened, peer, claimed, handle>>
=============================================================================
