SPECIFICATION FairSpec
INVARIANTS TypeOK WatchdogOff
PROPERTIES BootloaderOnlyWhenDue RequestStartsBootloader StartupEnds
