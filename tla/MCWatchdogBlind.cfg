SPECIFICATION FairSpec
PROPERTY SeenWhenQuiet
