------------------------- MODULE MCGatewayIntake -------------------------
EXTENDS GatewayIntake
CONSTANTS q1, q2

Serving(auth, exposed, governed, delayed, collecting, collectUsage, collectHealth, limit) ==
    [auth |-> auth, exposed |-> exposed, governed |-> governed, delayed |-> delayed,
     collecting |-> collecting, collectUsage |-> collectUsage, collectHealth |-> collectHealth,
     maxEvents |-> 1, maxTraces |-> limit, maxUsage |-> limit]
MCConfigs == {Serving("none-localhost-only", FALSE, TRUE, TRUE, TRUE, TRUE, TRUE, 1),
              Serving("bearer-token", TRUE, TRUE, FALSE, TRUE, TRUE, TRUE, 2),
              Serving("bearer-token", TRUE, TRUE, FALSE, TRUE, FALSE, TRUE, 1),
              Serving("bearer-token", FALSE, TRUE, FALSE, TRUE, TRUE, FALSE, 1),
              Serving("bearer-token", TRUE, FALSE, TRUE, FALSE, TRUE, TRUE, 1)}
==========================================================================
