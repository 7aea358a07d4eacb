-------------------------- MODULE MCFaultCondition --------------------------
(* A small instance of FaultCondition.  The cases cover every fault, both   *)
(* variants, roles the gates let through and roles they refuse, and the     *)
(* SocketCAN profiles; one platform is fit, one is WSL without eBPF.        *)
EXTENDS FaultCondition

C(f, v, r, t) == [fault |-> f, variant |-> v, role |-> r, transport |-> t]

MCCases ==
    {C("F1", "injected", "test", "mock"), C("F1", "control", "test", "mock"),
     C("F2", "injected", "calibration", "mock"),
     C("F3", "injected", "test", "mock"), C("F3", "control", "pilot", "mock"),
     C("F4", "control", "test", "mock"),
     C("F5", "injected", "pilot", "mock"), C("F5", "injected", "test", "mock"),
     C("F6", "injected", "development", "vcan"),
     C("F6", "control", "development", "physical"),
     C("F6", "injected", "test", "vcan")}

MCPlatforms ==
    {[sound |-> TRUE, wsl |-> FALSE,
      ready |-> {"runtime_event", "ros2_tracing", "identity_comparable_ebpf",
                 "cpu_control", "scheduling_tools"}],
     [sound |-> TRUE, wsl |-> TRUE, ready |-> {"runtime_event"}]}
=============================================================================
