-------------------------- MODULE MCDeviceRegistry --------------------------
EXTENDS DeviceRegistry
\* A metering plug with a switch and a sensor that is off by default, and a motion sensor the
\* hub lists in two halves, of whose entities the illuminance is one.
MCCarries == [outlet |-> {"plug"}, occupancy |-> {"motion"}, light |-> {"motion"}]
MCParts == DOMAIN MCCarries
MCPlatformOf == [outlet |-> "switch", occupancy |-> "sensor", light |-> "sensor"]
MCDevices == {"plug", "motion"}
MCDeviceOf == [socket |-> "plug", last_reset |-> "plug", lux |-> "motion"]
MCMadeFrom == [socket |-> {"outlet"}, last_reset |-> {"outlet"}, lux |-> {"light"}]
MCDomainOf == [socket |-> "switch", last_reset |-> "sensor", lux |-> "sensor"]
MCEntities == DOMAIN MCDeviceOf
MCDomains == {"switch", "sensor"}
MCDefaultOff == {"last_reset"}
MCAtSetup == {"lux"}
MCMatter == {"outlet"}
=============================================================================
