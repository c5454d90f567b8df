SPECIFICATION Spec
CONSTANT Activities = {"HostReport", "UnicastChange", "MembershipEnabled", "RemoveRoute", "ReceiveUpstream", "ReceiveHello", "ReceiveAck", "RetransmissionTimeout"}
INVARIANT NobodyIsStuck
