------------------------------ MODULE Registry ------------------------------
(***************************************************************************)
(* What a manager of durable components promises: a component that nobody  *)
(* is at work on runs exactly if it is saved.  A component is saved only   *)
(* once it runs and dropped only once it has stopped, so that a crash in   *)
(* between, and the boot that launches what is saved, lead back there.     *)
(***************************************************************************)

CONSTANT Component

VARIABLES
    up,        \* the manager's process is there
    saved,     \* components that outlive it
    running,
    busy       \* components that are being launched or removed, or soon will be

registryVars == <<up, saved, running, busy>>

RegistryTypeOK ==
    /\ up \in BOOLEAN
    /\ saved \subseteq Component /\ running \subseteq Component /\ busy \subseteq Component

RegistryInit ==
    /\ up = TRUE
    /\ saved \in SUBSET Component /\ running = {} /\ busy = saved

Begin(c) ==
    /\ up /\ c \notin busy
    /\ busy' = busy \cup {c}
    /\ UNCHANGED <<up, saved, running>>

Start(c) ==
    /\ c \in busy \ running
    /\ running' = running \cup {c}
    /\ UNCHANGED <<up, saved, busy>>

Stop(c) ==
    /\ c \in busy \cap running
    /\ running' = running \ {c}
    /\ UNCHANGED <<up, saved, busy>>

Save(c) ==
    /\ c \in busy \cap running
    /\ saved' = saved \cup {c}
    /\ UNCHANGED <<up, running, busy>>

Drop(c) ==
    /\ c \in busy \ running
    /\ saved' = saved \ {c}
    /\ UNCHANGED <<up, running, busy>>

End(c) ==
    /\ c \in busy
    /\ c \in running <=> c \in saved
    /\ busy' = busy \ {c}
    /\ UNCHANGED <<up, saved, running>>

Crash ==
    /\ up
    /\ up' = FALSE /\ busy' = {}
    /\ UNCHANGED <<saved, running>>

\* Nothing runs at first; what is saved will be launched.
Reboot ==
    /\ ~up
    /\ up' = TRUE /\ running' = {} /\ busy' = saved
    /\ UNCHANGED saved

RegistryNext ==
    \/ Crash \/ Reboot
    \/ \E c \in Component :
          Begin(c) \/ Start(c) \/ Stop(c) \/ Save(c) \/ Drop(c) \/ End(c)

RegistrySpec == RegistryInit /\ [][RegistryNext]_registryVars

\* What runs is what is saved, but for what somebody is at work on.
Settled == up => \A c \in Component \ busy : c \in running <=> c \in saved
=============================================================================
