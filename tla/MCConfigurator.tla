-------------------------- MODULE MCConfigurator --------------------------
(* Instances of Configurator for TLC: a processor, the board that fits it   *)
(* and one that fits neither it nor the memory, and a power supply that is  *)
(* too weak once the processor is chosen.                                   *)
EXTENDS Configurator

MCComponent(category, brandName, specs) ==
    [category |-> category, brand |-> brandName, specs |-> specs]

MCProcessor ==
    MCComponent("cpu", "AMD", [socket |-> "AM4", tdp |-> 65, power_draw |-> 100,
                               cooler_height |-> 158])

MCBoards ==
    {MCComponent("motherboard", "ASUS", [socket |-> "AM4", ram_type |-> "DDR4",
        form_factor |-> "ATX", pcie_version |-> "PCIe 4.0", m2_slots |-> 2, sata_ports |-> 4]),
     MCComponent("motherboard", "ASUS", [socket |-> "LGA1700", ram_type |-> "DDR5",
        form_factor |-> "Mini-ITX", pcie_version |-> "PCIe 5.0", m2_slots |-> 1,
        sata_ports |-> 0])}

MCMemory == MCComponent("ram", "Kingston", [ram_type |-> "DDR4", capacity |-> 16])

MCSupply == MCComponent("psu", "Corsair", [power |-> 200, form_factor |-> "SFX"])

MCCatalogue == {MCProcessor, MCMemory, MCSupply} \cup MCBoards

MCScenarios ==
    [dev |-> [CPUSocketWhitelist |-> {"AM4", "LGA1700"}, MinCPUTDP |-> 65, MaxCPUTDP |-> 105,
              RAMType |-> "DDR4", MinRAM |-> 16, MaxRAM |-> 32,
              MinGPUMemory |-> 4, MaxGPUMemory |-> 8, MinPSUPower |-> 550, MaxPSUPower |-> 850,
              MinHDDCapacity |-> 0, MaxHDDCapacity |-> 2000,
              CaseFormFactors |-> {"ATX", "Micro-ATX"}, MinSSDThroughput |-> 2000,
              SSDFormFactors |-> {"M.2", "2.5"}]]

MCBrands == {"Kingston"}

MCTabs == {"cpu", "motherboard", "ram", "psu"}
=============================================================================
