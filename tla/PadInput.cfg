CONSTANTS
  Pads = {0, 1}
  Ports = {0, 1}
  core_joy_port_map <- OwnPorts
  NoPort = none
  Rates = {2, 5}
  Players <- Both

SPECIFICATION Spec
INVARIANT TypeOK
PROPERTY MouseFollows
PROPERTY OnePressActsOnce
PROPERTY AutofireKeepsRate
