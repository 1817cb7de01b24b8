------------------------------- MODULE Devmgr -------------------------------
(***************************************************************************)
(* Devices and drivers in the device manager and in device hosts           *)
(* (system/uapp/devmgr/devmgr.c): the device tree, the references that     *)
(* keep a device, and binding.  Everything holds __devmgr_api_lock, but    *)
(* the lock is given up around every call of a driver: bind, unbind, open, *)
(* close and release.  An action is what is done between two of these.     *)
(*                                                                         *)
(* The root device is the parent Root; it is never removed.  An operation  *)
(* that fails and leaves everything as it was is not an action.            *)
(***************************************************************************)
EXTENDS Naturals, FiniteSets, Sequences, SequencesExt

CONSTANTS Devs,       \* mx_device_t objects
          DevThreads, \* threads that call the device manager
          Root,       \* the root device
          NoDev,      \* no device
          MaxOpens,   \* bound on the opens of a device at a time
          MaxProbes   \* bound on the drivers added after devices

VARIABLES dev,        \* the devices
          unmatched,  \* unmatched_device_list
          call,       \* what a thread is doing, and with which device
          probes,     \* drivers added so far
          touched     \* who touched a released device: "none", "driver_add", "open" or "other"

devmgrVars == <<dev, unmatched, call, probes, touched>>

(* refs is refcount; open, bound and lost count references: of opens that    *)
(* succeeded, of owners, and of opens that failed.                           *)
NewDev == [st |-> "none", refs |-> 0, dead |-> FALSE, very_dead |-> FALSE, busy |-> FALSE,
           instance |-> FALSE, parent |-> NoDev, owner |-> FALSE,
           open |-> 0, bound |-> 0, lost |-> 0]
NoCall == [op |-> "none", dev |-> NoDev, temp |-> NoDev]

DevmgrInit ==
  /\ dev = [d \in Devs |-> NewDev]
  /\ unmatched = <<>>
  /\ call = [t \in DevThreads |-> NoCall]
  /\ probes = 0 /\ touched = "none"

-----------------------------------------------------------------------------
(* dev_ref_release: the devices ds without one reference of d. *)
dev_ref_release(ds, d) ==
  LET n == ds[d].refs - 1
  IN [ds EXCEPT ![d].refs = n,
                ![d].dead = @ \/ (n = 0 /\ ds[d].instance),
                ![d].very_dead = @ \/ (n = 0 /\ ds[d].instance),
                ![d].st = IF n = 0 /\ ~ds[d].busy THEN "released" ELSE @]

ReleaseParent(ds, p) == IF p = Root THEN ds ELSE dev_ref_release(ds, p)

dev_ref_acquire(ds, d) == [ds EXCEPT ![d].refs = @ + 1]

(* An owner and its reference. *)
Own(ds, d) == [dev_ref_acquire(ds, d) EXCEPT ![d].owner = TRUE, ![d].bound = @ + 1]

Touch(ds, who) == touched' = IF {d \in ds : dev[d].st = "released"} = {} THEN touched ELSE who

-----------------------------------------------------------------------------
(* devmgr_device_add. *)

(* Up to the first call of a bind.  The device cannot be bound, or a device  *)
(* host is started for it, or no driver matches, or a driver is asked.       *)
devmgr_device_add(t, d, p) ==
  /\ call[t] = NoCall /\ dev[d].st = "none"
  /\ p # Root => dev[p].st = "added" /\ ~dev[p].dead /\ ~dev[p].instance
  /\ LET linked == IF p = Root THEN dev ELSE dev_ref_acquire(dev, p)
         added == [linked EXCEPT ![d] = [NewDev EXCEPT !.st = "added", !.refs = 1, !.parent = p]]
     IN \/ dev' = added /\ UNCHANGED <<unmatched, call>>
        \/ dev' = Own(added, d) /\ UNCHANGED <<unmatched, call>>
        \/ dev' = added /\ unmatched' = Append(unmatched, d) /\ UNCHANGED call
        \/ /\ dev' = [added EXCEPT ![d].busy = TRUE]
           /\ call' = [call EXCEPT ![t] = [NoCall EXCEPT !.op = "add bind", !.dev = d]]
           /\ UNCHANGED unmatched
  /\ UNCHANGED <<probes, touched>>

(* The bind has returned; after a failure the next driver is asked, and      *)
(* after the last the device is unmatched.                                   *)
AddBound(t, ok) ==
  LET d == call[t].dev
  IN /\ call[t].op = "add bind"
     /\ Touch({d}, "other")
     /\ IF ok
          THEN dev' = [Own(dev, d) EXCEPT ![d].busy = FALSE] /\ UNCHANGED unmatched
          ELSE /\ dev' = [dev EXCEPT ![d].busy = FALSE]
               /\ unmatched' = Append(unmatched, d)
     /\ call' = [call EXCEPT ![t] = NoCall]
     /\ UNCHANGED probes

-----------------------------------------------------------------------------
(* devmgr_driver_add. *)

(* The probe of a device in the list that the driver matches: whether the    *)
(* device has an owner by now is not asked.  The one after it is noted.      *)
Probe(t, d) ==
  /\ \E i \in DOMAIN unmatched : unmatched[i] = d
  /\ LET i == CHOOSE i \in DOMAIN unmatched : unmatched[i] = d
     IN call' = [call EXCEPT ![t] = [op |-> "probe", dev |-> d,
                   temp |-> IF i < Len(unmatched) THEN unmatched[i + 1] ELSE NoDev]]

devmgr_driver_add(t) ==
  /\ call[t] = NoCall /\ probes < MaxProbes
  /\ probes' = probes + 1
  /\ \E d \in Devs : Probe(t, d)
  /\ UNCHANGED <<dev, unmatched, touched>>

(* The bind has returned.  No reference was held during the call. *)
Probed(t, ok) ==
  LET d == call[t].dev
      temp == call[t].temp
  IN /\ call[t].op = "probe"
     /\ \/ /\ ok
           /\ Touch({d}, "driver_add")
           /\ dev' = Own(dev, d)
           /\ call' = [call EXCEPT ![t] = NoCall]
        \/ /\ ~ok
           /\ UNCHANGED dev
           /\ IF temp = NoDev \/ \E i \in DOMAIN unmatched : unmatched[i] = temp
                THEN /\ UNCHANGED touched
                     /\ \/ call' = [call EXCEPT ![t] = NoCall]
                        \/ temp # NoDev /\ Probe(t, temp)
                ELSE touched' = "driver_add" /\ UNCHANGED call
     /\ UNCHANGED <<unmatched, probes>>

-----------------------------------------------------------------------------
(* devmgr_device_remove. *)

(* Lines 526-529. *)
Removed(ds, d) == dev_ref_release([ds EXCEPT ![d].very_dead = TRUE], d)

(* Lines 518-519, and the rest. *)
Disowned(ds, d) ==
  Removed([dev_ref_release(ds, d) EXCEPT ![d].owner = FALSE, ![d].bound = @ - 1], d)

(* Lines 506-520: out of the list, and the call of unbind if there is an     *)
(* owner that has one; remote_driver does not.                               *)
Unmatch(t, ds, d) ==
  /\ unmatched' = Remove(unmatched, d)
  /\ \/ /\ ds[d].owner /\ dev' = ds
        /\ call' = [call EXCEPT ![t] = [NoCall EXCEPT !.op = "unbind", !.dev = d]]
     \/ /\ dev' = IF ds[d].owner THEN Disowned(ds, d) ELSE Removed(ds, d)
        /\ call' = [call EXCEPT ![t] = NoCall]

(* Mutant: a device that is being created can be removed. *)
devmgr_device_removeBusy(t, d) ==
  /\ call[t] = NoCall
  /\ dev[d].st = "added" /\ ~dev[d].dead /\ ~dev[d].instance
  /\ LET p == dev[d].parent
         ds == ReleaseParent([dev EXCEPT ![d].dead = TRUE, ![d].parent = NoDev], p)
     IN IF p # Root /\ ds[p].st = "released"
          THEN /\ dev' = ds
               /\ call' = [call EXCEPT ![t] = [NoCall EXCEPT !.op = "detached", !.dev = d]]
               /\ UNCHANGED unmatched
          ELSE Unmatch(t, ds, d)
  /\ UNCHANGED <<probes, touched>>

(* Up to the release of the parent, when that was the last reference, or on  *)
(* to the call of unbind.                                                    *)
devmgr_device_remove(t, d) ==
  /\ call[t] = NoCall
  /\ dev[d].st = "added" /\ ~dev[d].dead /\ ~dev[d].busy /\ ~dev[d].instance
  /\ LET p == dev[d].parent
         ds == ReleaseParent([dev EXCEPT ![d].dead = TRUE, ![d].parent = NoDev], p)
     IN IF p # Root /\ ds[p].st = "released"
          THEN /\ dev' = ds
               /\ call' = [call EXCEPT ![t] = [NoCall EXCEPT !.op = "detached", !.dev = d]]
               /\ UNCHANGED unmatched
          ELSE Unmatch(t, ds, d)
  /\ UNCHANGED <<probes, touched>>

ParentReleased(t) ==
  /\ call[t].op = "detached"
  /\ Touch({call[t].dev}, "other")
  /\ Unmatch(t, dev, call[t].dev)
  /\ UNCHANGED probes

Unbound(t) ==
  LET d == call[t].dev
  IN /\ call[t].op = "unbind"
     /\ Touch({d}, "other")
     /\ dev' = Disowned(dev, d)
     /\ call' = [call EXCEPT ![t] = NoCall]
     /\ UNCHANGED <<unmatched, probes>>

-----------------------------------------------------------------------------
(* devmgr_device_open and devmgr_device_close. *)

Opening(d) == Cardinality({t \in DevThreads : call[t].op = "open" /\ call[t].dev = d})
LookedUp(d) == Cardinality({t \in DevThreads : call[t].op = "lookup" /\ call[t].dev = d})
Closing(d) == Cardinality({t \in DevThreads : call[t].op = "close" /\ call[t].dev = d})

(* vnd_gethandles: a device found in devfs.  Its node is taken out of devfs *)
(* by devmgr_device_remove, but here __devmgr_api_lock is not held.          *)
vnd_gethandles(t, d) ==
  /\ call[t] = NoCall
  /\ dev[d].st = "added" /\ ~dev[d].dead /\ ~dev[d].instance
  /\ dev[d].open + dev[d].lost + Opening(d) + LookedUp(d) < MaxOpens
  /\ call' = [call EXCEPT ![t] = [NoCall EXCEPT !.op = "lookup", !.dev = d]]
  /\ UNCHANGED <<dev, unmatched, probes, touched>>

(* Mutant: no reference is held during the driver's open. *)
devmgr_device_openBare(t) ==
  LET d == call[t].dev
  IN /\ call[t].op = "lookup"
     /\ Touch({d}, "open")
     /\ call' = [call EXCEPT ![t] = IF dev[d].dead THEN NoCall ELSE [@ EXCEPT !.op = "open"]]
     /\ UNCHANGED <<dev, unmatched, probes>>

(* Up to the call of the driver's open. *)
devmgr_device_open(t) ==
  LET d == call[t].dev
  IN /\ call[t].op = "lookup"
     /\ Touch({d}, "open")
     /\ IF dev[d].dead
          THEN call' = [call EXCEPT ![t] = NoCall] /\ UNCHANGED dev
          ELSE /\ dev' = dev_ref_acquire(dev, d)
               /\ call' = [call EXCEPT ![t].op = "open"]
     /\ UNCHANGED <<unmatched, probes>>

(* The driver's open has returned: with success, with a failure, after which *)
(* nobody gives the reference back (devmgr_get_handles does not either), or  *)
(* with an instance i that device_add_instance has added, open in its place. *)
Opened(t) ==
  LET d == call[t].dev
  IN /\ call[t].op = "open"
     /\ Touch({d}, "other")
     /\ \/ dev' = [dev EXCEPT ![d].open = @ + 1]
        \/ dev' = [dev EXCEPT ![d].lost = @ + 1]
        \/ \E i \in Devs :
             /\ dev[i].st = "none"
             /\ dev' = dev_ref_release([dev EXCEPT ![i] = [NewDev EXCEPT
                         !.st = "added", !.refs = 1, !.instance = TRUE, !.open = 1]], d)
     /\ call' = [call EXCEPT ![t] = NoCall]
     /\ UNCHANGED <<unmatched, probes>>

devmgr_device_close(t, d) ==
  /\ call[t] = NoCall
  /\ dev[d].st = "added" /\ dev[d].open > 0
  /\ dev' = [dev EXCEPT ![d].open = @ - 1]
  /\ call' = [call EXCEPT ![t] = [NoCall EXCEPT !.op = "close", !.dev = d]]
  /\ UNCHANGED <<unmatched, probes, touched>>

Closed(t) ==
  LET d == call[t].dev
  IN /\ call[t].op = "close"
     /\ Touch({d}, "other")
     /\ dev' = dev_ref_release(dev, d)
     /\ call' = [call EXCEPT ![t] = NoCall]
     /\ UNCHANGED <<unmatched, probes>>

DevmgrNext ==
  /\ touched = "none"
  /\ \E t \in DevThreads :
       \/ \E d \in Devs :
            \/ \E p \in Devs \cup {Root} : devmgr_device_add(t, d, p)
            \/ devmgr_device_remove(t, d)
            \/ vnd_gethandles(t, d) \/ devmgr_device_close(t, d)
       \/ \E ok \in BOOLEAN : AddBound(t, ok) \/ Probed(t, ok)
       \/ devmgr_driver_add(t) \/ devmgr_device_open(t)
       \/ ParentReleased(t) \/ Unbound(t) \/ Opened(t) \/ Closed(t)

DevmgrSpec == DevmgrInit /\ [][DevmgrNext]_devmgrVars

-----------------------------------------------------------------------------
(* Properties. *)

Children(d) == {c \in Devs : dev[c].parent = d /\ ~dev[c].instance}

(* Every reference of a device is one that somebody holds or that a failed   *)
(* open has lost: the device tree's, until the device is removed or the      *)
(* instance closed, an owner's, an open, a call that is going on, a child.   *)
(* A device is released exactly when there are none, and then it is "very    *)
(* dead", has no children and waits for no driver, which dev_ref_release     *)
(* only prints a warning about.                                              *)
DevRefsExact ==
  touched = "none" =>
    \A d \in Devs : dev[d].st # "none" =>
      /\ dev[d].refs =
           (IF dev[d].very_dead \/ dev[d].instance THEN 0 ELSE 1) + dev[d].bound + dev[d].open
           + dev[d].lost + Opening(d) + Closing(d) + Cardinality(Children(d))
      /\ (dev[d].st = "released") = (dev[d].refs = 0)
      /\ dev[d].st = "released" =>
           dev[d].very_dead /\ \A i \in DOMAIN unmatched : unmatched[i] # d

(* No call goes on with a device that was released while the lock was not    *)
(* held, with two exceptions: devmgr_driver_add holds no reference during    *)
(* bind, and keeps its place in a list that may change; an open through      *)
(* devfs holds none from the lookup to devmgr_device_open.                   *)
DevsNotTouchedWhenReleased == touched # "other"
=============================================================================
