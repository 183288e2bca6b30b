SPECIFICATION PortalSpec
PROPERTY RevertedWithoutPortalOnly
