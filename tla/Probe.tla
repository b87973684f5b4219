-------------------------------- MODULE Probe --------------------------------
(***************************************************************************)
(* What an agent reports of its machine (crates/agent/src/probe.rs).  A    *)
(* thing on a machine is a container, an IIS site, a systemd unit or a     *)
(* Windows service; each kind is listed by a command of its own, and a     *)
(* command that cannot run or fails lists nothing.                         *)
(***************************************************************************)
EXTENDS Naturals

CONSTANTS
    Things,      \* everything installed: [name, kind, running, managed, automatic], where
                 \* a kind is "docker", "podman", "unit", "site" or "service"
    IsWindows    \* cfg!(target_os = "windows")

\* output: the lines a command prints, none when it fails
Output(failing, kind) ==
    IF kind \in failing THEN {} ELSE {t \in Things : t.kind = kind}

\* ps --all: stopped containers count too
Containers(failing, engine) == Output(failing, engine)

\* only what DigiHost deployed, unless everything was asked for
IsReported(t, include_system) == include_system \/ t.managed

SystemdUnits(failing, include_system) ==
    {t \in Output(failing, "unit") : t.running /\ IsReported(t, include_system)}

UnixWorkloads(failing, include_system) ==
    Containers(failing, "docker") \cup Containers(failing, "podman")
        \cup SystemdUnits(failing, include_system)

IisSites(failing) == Output(failing, "site")

Services(failing, include_system) ==
    {t \in Output(failing, "service") :
        t.running /\ t.automatic /\ IsReported(t, include_system)}

WindowsWorkloads(failing, include_system) ==
    Containers(failing, "docker") \cup IisSites(failing) \cup Services(failing, include_system)

Workloads(failing, include_system) ==
    IF IsWindows THEN WindowsWorkloads(failing, include_system)
    ELSE UnixWorkloads(failing, include_system)
=============================================================================
