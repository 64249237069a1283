------------------------------ MODULE MCFirmware ------------------------------
(* Every part of the firmware, by itself or with its neighbours.            *)
EXTENDS Firmware

MCBuilds ==
  {{"timer", "spi", "gpio"}, {"i2c"}, {"nand"}, {"blocks"}, {"console"}}
=============================================================================
