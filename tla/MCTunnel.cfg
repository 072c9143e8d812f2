CONSTANTS
    REPLAY_WINDOW_LEN = 3
    MaxNonce = 4
    Kinds = {"data", "keepalive"}
    SOCKET_SEND_CAP = 1
    APP_CHAN_CAP = 1
SPECIFICATION TunnelSpec
INVARIANTS NoReplay HeldOnce  Delivered WithinBounds Agreement Timers 
PROPERTY TunnelSteps
